---- MODULE Spec2Model ----
(***************************************************************************)
(* The rules engine of capsbench (src/src/game_logic.py, CapsiCapsGame):   *)
(* one game session, its reset and its process_move.                       *)
(*                                                                         *)
(* Encoding.  A cell id "P<x><y>" is the pair of its digits <<x, y>>.  A   *)
(* board value is a record: [kind |-> "obstacle"], an empty cell           *)
(* "P<x><y><topo>" is [kind |-> "empty", pos, topo], and a gear string     *)
(* "G4P21L3B1000" is [kind |-> "gear", type, pos, topo, rot, bases_code],  *)
(* the five groups _parse_gear_str reads back from it; bases_code is the   *)
(* 4-digit code as a sequence, so the code's base index i is position i+1. *)
(* A command string is the sequence of its ';'-separated segments, each    *)
(* the record of the tokens the engine's regular expressions look for.     *)
(* result is what the last call gave back: [kind |-> "reset", level_id |->  *)
(* the identifier asked for] after reset,                                 *)
(* [kind |-> "returned", success, msg] for the dict process_move returns   *)
(* (msg keeps the leading words of the code's message, or the exception's  *)
(* class for one the code does not word itself), [kind |-> "raised", exc]  *)
(* for an exception that leaves process_move.  A history line "J<n>: ..."  *)
(* is [turn |-> n, error], error for the "[ERROR]" mark.                   *)
(* completion_percent is kept in thousandths of a percent.                 *)
(***************************************************************************)
EXTENDS Integers, Sequences, FiniteSets, TLC

VARIABLES level_id, dims, inventory, max_moves, ideal_moves, moves_count,
          score_accumulated, is_game_over, game_result, completion_percent,
          final_benchmark_score, history, entropy_triggered, board, mice,
          result

vars == <<level_id, dims, inventory, max_moves, ideal_moves, moves_count,
          score_accumulated, is_game_over, game_result, completion_percent,
          final_benchmark_score, history, entropy_triggered, board, mice,
          result>>

\* Everything process_move may write except the returned value.
session == <<level_id, dims, inventory, max_moves, ideal_moves, moves_count,
             score_accumulated, is_game_over, game_result, completion_percent,
             final_benchmark_score, history, entropy_triggered, board, mice>>

-----------------------------------------------------------------------------
(* Bounds of the exploration.  The engine reads a level only through reset *)
(* and is the same code for every level, so the sessions explored          *)
(* exhaustively are played on two reduced levels of the catalog's shape   *)
(* (one gear in the inventory per playable cell, one mouse per column):    *)
(*   "row"   2 x 1, both cells playable: two mice, the entropy row holds   *)
(*           two gears, every mouse can escape;                            *)
(*   "mini"  2 x 2 with P21 an obstacle: two rows, jumps in all four       *)
(*           directions, an obstacle in row 1.                             *)
(* Level "1" is the catalog's, the one the constructor loads; a session on *)
(* it is followed for Level1Moves moves.                                   *)

\* Moves followed on level "1".
Level1Moves == 2

\* Move budget of level "row".
RowMaxMoves == 4

\* Ideal move count of level "row".
RowIdealMoves == 3

\* Move budget of level "mini".
MiniMaxMoves == 4

\* Ideal move count of level "mini".
MiniIdealMoves == 3

RowLevel ==
    [board_size |-> <<2, 1>>,
     game_map |-> <<1, 1>>,
     inventory |-> [G1 |-> 0, G2 |-> 1, G3 |-> 0, G4 |-> 1],
     max_moves |-> RowMaxMoves,
     ideal_moves |-> RowIdealMoves]

MiniLevel ==
    [board_size |-> <<2, 2>>,
     game_map |-> <<1, 0, 1, 1>>,
     inventory |-> [G1 |-> 1, G2 |-> 0, G3 |-> 1, G4 |-> 1],
     max_moves |-> MiniMaxMoves,
     ideal_moves |-> MiniIdealMoves]

\* The levels a session is reset to.
SessionLevels == {"1", "row", "mini"}

\* Identifiers reset may be given that name no entry of the catalog.
UnknownLevels == {"99", ""}

-----------------------------------------------------------------------------
(* 1. Configuration and truth tables                                       *)

\* on_base of a mouse that is on no base (Python's None).
None == -1

\* What _get_cell_from_coords and _get_coords return for "no cell" (None).
NoCell == <<>>

\* pos of an escaped mouse ("OUT").
OUT == <<0, 0>>

GearTypes == {"G1", "G2", "G3", "G4"}

GAME_LEVELS ==
    "1" :> [board_size |-> <<3, 3>>,
            game_map |-> <<1, 1, 1, 1, 0, 1, 1, 1, 1>>,
            inventory |-> [G1 |-> 2, G2 |-> 3, G3 |-> 1, G4 |-> 2],
            max_moves |-> 22,
            ideal_moves |-> 12]
    @@ "4" :> [board_size |-> <<6, 6>>,
               game_map |-> <<1, 1, 1, 1, 1, 1,  1, 1, 1, 1, 0, 1,
                              0, 1, 1, 1, 1, 1,  1, 1, 0, 1, 1, 1,
                              1, 1, 1, 1, 0, 1,  1, 1, 0, 1, 1, 1>>,
               inventory |-> [G1 |-> 8, G2 |-> 5, G3 |-> 11, G4 |-> 7],
               max_moves |-> 58,
               ideal_moves |-> 44]
    @@ "row" :> RowLevel
    @@ "mini" :> MiniLevel

\* Which base indices exist on each gear type, in the order the code scans.
GEAR_BASES(g_type) ==
    CASE g_type = "G1" -> <<0>>
      [] g_type = "G2" -> <<0, 2>>
      [] g_type = "G3" -> <<1, 2, 3>>
      [] g_type = "G4" -> <<0, 1, 2, 3>>

\* (dx, dy) of a direction: 0 North, 1 West, 2 South, 3 East.
DIRECTION_DELTAS(d) ==
    CASE d = 0 -> <<0, 1>>
      [] d = 1 -> <<-1, 0>>
      [] d = 2 -> <<0, -1>>
      [] d = 3 -> <<1, 0>>

\* A variant of SCORE_POINTS that pays every jump alike.
SCORE_POINTS_flat(d) == 5

SCORE_POINTS(d) ==
    CASE d = 0 -> 10
      [] d = 1 -> 5
      [] d = 3 -> 5
      [] d = 2 -> -10

-----------------------------------------------------------------------------
(* 2. Helpers                                                              *)

\* sum(inventory.values())
InventorySum(inv) == inv.G1 + inv.G2 + inv.G3 + inv.G4

\* A variant of InventoryGet that finds a unit of every known type.
InventoryGetAlways(inv, g_type) == IF g_type \in DOMAIN inv THEN 1 ELSE 0

\* inventory.get(g_type, 0)
InventoryGet(inv, g_type) == IF g_type \in DOMAIN inv THEN inv[g_type] ELSE 0

\* The members of a sequence.
Range(seq) == {seq[i] : i \in 1..Len(seq)}

\* F applied to the value of x: one statement's result handed to the next.
Bind(x, F(_)) == CHOOSE r \in {F(v) : v \in {x}} : TRUE

\* "R" if (x + y) % 2 == 0 else "L"
Topology(x, y) == IF (x + y) % 2 = 0 THEN "R" ELSE "L"

\* data.startswith("G")
IsGear(content) == content.kind = "gear"

\* _build_gear_str, as the record _parse_gear_str reads back.
_build_gear_str(g_type, pos, topo, rot, bases_code) ==
    [kind |-> "gear", type |-> g_type, pos |-> pos, topo |-> topo,
     rot |-> rot, bases_code |-> bases_code]

\* re.sub(r"(\d)B", f"{new_rot}B", gear_str, count=1)
_update_gear_str_rotation(gear, new_rot) == [gear EXCEPT !.rot = new_rot]

\* re.sub(r"B(\d{4})", f"B{new_bases_code}", gear_str, count=1)
_update_gear_str_bases(gear, new_bases_code) ==
    [gear EXCEPT !.bases_code = new_bases_code]

\* re.match(r"P(\d+)(\d+)", cell_id): the first group is greedy, so the last
\* digit is y and the digits before it are x; fewer than two digits: None.
\* A variant of _get_coords that reads P<y><x>.
_get_coords_row_first(cell_id) ==
    IF Len(cell_id) = 2 THEN <<cell_id[2], cell_id[1]>>
    ELSE IF Len(cell_id) = 3 THEN <<cell_id[3], 10 * cell_id[1] + cell_id[2]>>
    ELSE NoCell

_get_coords(cell_id) ==
    IF Len(cell_id) = 2 THEN <<cell_id[1], cell_id[2]>>
    ELSE IF Len(cell_id) = 3 THEN <<10 * cell_id[1] + cell_id[2], cell_id[3]>>
    ELSE NoCell

\* f"P{x}{y}" inside the boundaries (rows 0 and height+1 included), else None.
_get_cell_from_coords(x, y) ==
    IF ~(1 <= x /\ x <= dims[1]) THEN NoCell
    ELSE IF ~(0 <= y /\ y <= dims[2] + 1) THEN NoCell
    ELSE <<x, y>>

\* A variant of _calc_rotation that turns every gear the same way.
_calc_rotation_one_way(current_b, rot_str) == (current_b + 1) % 4

\* New rotation index of a gear turned by rot_str.
_calc_rotation(current_b, rot_str) ==
    LET delta == IF rot_str = "+90" THEN 1 ELSE -1
    IN  (current_b + delta) % 4

\* Absolute direction of a base: (gear rotation + base index) % 4.
\* A variant of the vector sum that leaves the gear's rotation out.
_calc_vector_sum_base_only(gear_b, base_b) == base_b % 4

_calc_vector_sum(gear_b, base_b) == (gear_b + base_b) % 4

\* A variant of FirstFreeBase that takes the base whatever its digit.
FirstBaseFreeOrNot(gear, dir) ==
    LET hits == {b \in {0, 1, 2, 3} :
                    /\ gear.bases_code[b + 1] # 2
                    /\ (gear.rot + b) % 4 = dir}
    IN  IF hits = {} THEN -1 ELSE CHOOSE b \in hits : TRUE

\* The first base of the scan order that points to direction dir and whose
\* digit in the gear's code is '0'; None when the scan finds none.
FirstFreeBase(gear, dir) ==
    LET vb == GEAR_BASES(gear.type)
        hits == {i \in 1..Len(vb) :
                    /\ _calc_vector_sum(gear.rot, vb[i]) = dir
                    /\ gear.bases_code[vb[i] + 1] = 0}
    IN  IF hits = {} THEN None
        ELSE vb[CHOOSE i \in hits : \A j \in hits : i <= j]

-----------------------------------------------------------------------------
(* 3. reset                                                                *)

\* The level reset loads: an unknown id falls back to "1".
\* A variant of the fallback that loads another level.
ResetLevelFirstEntry(lvl) == IF lvl \in DOMAIN GAME_LEVELS THEN lvl ELSE "row"

ResetLevel(lvl) == IF lvl \in DOMAIN GAME_LEVELS THEN lvl ELSE "1"

\* A variant of the board that reads the map column by column.
ResetBoardByColumn(config) ==
    LET w == config.board_size[1]
        h == config.board_size[2]
    IN  [c \in (1..w) \X (1..h) |->
            IF config.game_map[(c[1] - 1) * h + c[2]] = 0
            THEN [kind |-> "obstacle"]
            ELSE [kind |-> "empty", pos |-> c, topo |-> Topology(c[1], c[2])]]

\* The board reset builds: map_str is read row by row, x fastest.
ResetBoard(config) ==
    LET w == config.board_size[1]
        h == config.board_size[2]
    IN  [c \in (1..w) \X (1..h) |->
            IF config.game_map[(c[2] - 1) * w + c[1]] = 0
            THEN [kind |-> "obstacle"]
            ELSE [kind |-> "empty", pos |-> c, topo |-> Topology(c[1], c[2])]]

\* The mice reset creates: M<i> waits in the bay cell P<i>0.
ResetMice(config) ==
    [i \in 1..config.board_size[1] |->
        [pos |-> <<i, 0>>, on_base |-> None, status |-> "WAITING"]]

\* The values reset(lvl) assigns (lines 176-221).
ResetValue(lvl) ==
    LET id == ResetLevel(lvl)
        config == GAME_LEVELS[id]
    IN  [level_id |-> id,
         dims |-> config.board_size,
         inventory |-> config.inventory,
         max_moves |-> config.max_moves,
         ideal_moves |-> config.ideal_moves,
         board |-> ResetBoard(config),
         mice |-> ResetMice(config)]

-----------------------------------------------------------------------------
(* 4. Physics.  The engine's mutable part is threaded through the steps as *)
(* a record st = [board, inventory, mice, score, exc]; exc names the       *)
(* Python exception a step died of ("" for none), after which no later     *)
(* step runs.                                                              *)

\* A variant of _check_adjacency that accepts every cell.
_check_adjacency_anywhere(st, cell_id) == TRUE

\* A variant of _check_adjacency that also accepts a gear on a diagonal
\* neighbour.
_check_adjacency_diagonal(st, cell_id) ==
    LET c == _get_coords(cell_id)
    IN  \E dx, dy \in {-1, 0, 1} :
            LET nid == _get_cell_from_coords(c[1] + dx, c[2] + dy)
            IN  /\ <<dx, dy>> # <<0, 0>>
                /\ nid # NoCell
                /\ nid \in DOMAIN st.board
                /\ IsGear(st.board[nid])

\* _check_adjacency: some orthogonal neighbour holds a gear.
_check_adjacency(st, cell_id) ==
    LET c == _get_coords(cell_id)
    IN  \E d \in 0..3 :
            LET nid == _get_cell_from_coords(c[1] + DIRECTION_DELTAS(d)[1],
                                             c[2] + DIRECTION_DELTAS(d)[2])
            IN  /\ nid # NoCell
                /\ nid \in DOMAIN st.board
                /\ IsGear(st.board[nid])

\* The body of _check_entries' loop for mouse mid (lines 611-636).
\* A variant of the entry that leaves the base it takes marked Empty.
EnterMouseUnmarked(st, mid) ==
    LET m == st.mice[mid]
    IN  IF m.status # "WAITING" THEN st
        ELSE
          LET x == _get_coords(m.pos)[1]
              target == <<x, 1>>
          IN  IF ~(target \in DOMAIN st.board /\ IsGear(st.board[target]))
              THEN st
              ELSE
                LET g_data == st.board[target]
                    b_idx == FirstFreeBase(g_data, 2)
                IN  IF b_idx = None THEN st
                    ELSE [st EXCEPT
                            !.mice[mid] = [pos |-> target, on_base |-> b_idx,
                                           status |-> "IN_PLAY"]]

EnterMouse(st, mid) ==
    LET m == st.mice[mid]
    IN  IF m.status # "WAITING" THEN st
        ELSE
          LET x == _get_coords(m.pos)[1]
              target == <<x, 1>>
          IN  IF ~(target \in DOMAIN st.board /\ IsGear(st.board[target]))
              THEN st
              ELSE
                LET g_data == st.board[target]
                    b_idx == FirstFreeBase(g_data, 2)
                IN  IF b_idx = None THEN st
                    ELSE [st EXCEPT
                            !.mice[mid] = [pos |-> target, on_base |-> b_idx,
                                           status |-> "IN_PLAY"],
                            !.board[target] = _update_gear_str_bases(g_data,
                                [g_data.bases_code EXCEPT ![b_idx + 1] = 1])]

RECURSIVE EntriesFrom(_, _)
EntriesFrom(st, mid) ==
    IF mid > Len(st.mice) THEN st
    ELSE Bind(EnterMouse(st, mid), LAMBDA s : EntriesFrom(s, mid + 1))

\* _check_entries: every waiting mouse, in the order M1, M2, ...
_check_entries(st) == EntriesFrom(st, 1)

\* _apply_rotation: the cascade driven from driver_cell.
_apply_rotation(st, driver_cell, rot_str) ==
    LET driver_topo == st.board[driver_cell].topo
        Turn(cell_str) ==
            LET current_rot_str ==
                    IF cell_str.topo # driver_topo
                    THEN (IF rot_str = "+90" THEN "-90" ELSE "+90")
                    ELSE rot_str
                new_b == _calc_rotation(cell_str.rot, current_rot_str)
            IN  IF new_b # cell_str.rot
                THEN _update_gear_str_rotation(cell_str, new_b)
                ELSE cell_str
    IN  [st EXCEPT !.board =
            [c \in DOMAIN st.board |->
                IF IsGear(st.board[c]) THEN Turn(st.board[c]) ELSE st.board[c]]]

\* A variant of Escape that leaves the origin base marked occupied.
EscapeKeepingBase(st, mid) ==
    [st EXCEPT !.mice[mid] = [pos |-> OUT, on_base |-> None, status |-> "ESCAPED"],
               !.score = @ + 10]

\* Lines 693-705: mouse mid leaves the board from its gear.
Escape(st, mid) ==
    LET m == st.mice[mid]
        curr == st.board[m.pos]
    IN  [st EXCEPT
            !.board[m.pos] = _update_gear_str_bases(curr,
                                [curr.bases_code EXCEPT ![m.on_base + 1] = 0]),
            !.mice[mid] = [pos |-> OUT, on_base |-> None, status |-> "ESCAPED"],
            !.score = @ + 10]

\* A variant of the loop body that leaves the base a mouse lands on marked
\* Empty.
JumpMouseUnmarked(st, mid) ==
    LET m == st.mice[mid]
    IN  IF st.exc # "" \/ m.pos \notin DOMAIN st.board THEN st
        ELSE IF ~IsGear(st.board[m.pos]) THEN [st EXCEPT !.exc = "TypeError"]
        ELSE
          LET curr == st.board[m.pos]
              pointing == _calc_vector_sum(curr.rot, m.on_base)
              d == DIRECTION_DELTAS(pointing)
              c == _get_coords(m.pos)
              target_cell == _get_cell_from_coords(c[1] + d[1], c[2] + d[2])
              freed == _update_gear_str_bases(curr,
                           [curr.bases_code EXCEPT ![m.on_base + 1] = 0])
          IN  IF target_cell = NoCell THEN st
              ELSE IF _get_coords(target_cell)[2] > dims[2] THEN
                IF pointing = 0 THEN Escape(st, mid) ELSE st
              ELSE IF /\ target_cell \in DOMAIN st.board
                      /\ IsGear(st.board[target_cell])
              THEN
                LET tgt_data == st.board[target_cell]
                    required == (pointing + 2) % 4
                    tb_idx == FirstFreeBase(tgt_data, required)
                    board1 == [st.board EXCEPT ![m.pos] = freed]
                    current_tgt == board1[target_cell]
                    board2 == [board1 EXCEPT ![target_cell] = current_tgt]
                IN  IF tb_idx = None THEN st
                    ELSE [st EXCEPT
                            !.board = board2,
                            !.mice[mid] = [m EXCEPT !.pos = target_cell,
                                                    !.on_base = tb_idx],
                            !.score = @ + SCORE_POINTS(pointing)]
              ELSE st

\* A variant of the loop body that sends a mouse pointing South on row 1
\* back to the waiting bay.
JumpMouseBackToBay(st, mid) ==
    LET m == st.mice[mid]
    IN  IF st.exc # "" \/ m.pos \notin DOMAIN st.board THEN st
        ELSE IF ~IsGear(st.board[m.pos]) THEN [st EXCEPT !.exc = "TypeError"]
        ELSE
          LET curr == st.board[m.pos]
              pointing == _calc_vector_sum(curr.rot, m.on_base)
              d == DIRECTION_DELTAS(pointing)
              c == _get_coords(m.pos)
              target_cell == _get_cell_from_coords(c[1] + d[1], c[2] + d[2])
              freed == _update_gear_str_bases(curr,
                           [curr.bases_code EXCEPT ![m.on_base + 1] = 0])
          IN  IF target_cell = NoCell THEN st
              ELSE IF _get_coords(target_cell)[2] > dims[2] THEN
                IF pointing = 0 THEN Escape(st, mid) ELSE st
              ELSE IF /\ target_cell \in DOMAIN st.board
                      /\ IsGear(st.board[target_cell])
              THEN
                LET tgt_data == st.board[target_cell]
                    required == (pointing + 2) % 4
                    tb_idx == FirstFreeBase(tgt_data, required)
                    board1 == [st.board EXCEPT ![m.pos] = freed]
                    current_tgt == board1[target_cell]
                    board2 == [board1 EXCEPT ![target_cell] =
                                 _update_gear_str_bases(current_tgt,
                                    [current_tgt.bases_code EXCEPT
                                        ![tb_idx + 1] = 1])]
                IN  IF tb_idx = None THEN st
                    ELSE [st EXCEPT
                            !.board = board2,
                            !.mice[mid] = [m EXCEPT !.pos = target_cell,
                                                    !.on_base = tb_idx],
                            !.score = @ + SCORE_POINTS(pointing)]
              ELSE IF pointing = 2 /\ c[2] = 1
              THEN [st EXCEPT
                      !.board[m.pos] = freed,
                      !.mice[mid] = [pos |-> <<c[1], 0>>, on_base |-> None,
                                     status |-> "WAITING"]]
              ELSE st

\* A variant of the loop body that leaves the base a mouse jumps from
\* marked Occupied.
JumpMouseKeepsOrigin(st, mid) ==
    LET m == st.mice[mid]
    IN  IF st.exc # "" \/ m.pos \notin DOMAIN st.board THEN st
        ELSE IF ~IsGear(st.board[m.pos]) THEN [st EXCEPT !.exc = "TypeError"]
        ELSE
          LET curr == st.board[m.pos]
              pointing == _calc_vector_sum(curr.rot, m.on_base)
              d == DIRECTION_DELTAS(pointing)
              c == _get_coords(m.pos)
              target_cell == _get_cell_from_coords(c[1] + d[1], c[2] + d[2])
              freed == _update_gear_str_bases(curr,
                           [curr.bases_code EXCEPT ![m.on_base + 1] = 0])
          IN  IF target_cell = NoCell THEN st
              ELSE IF _get_coords(target_cell)[2] > dims[2] THEN
                IF pointing = 0 THEN Escape(st, mid) ELSE st
              ELSE IF /\ target_cell \in DOMAIN st.board
                      /\ IsGear(st.board[target_cell])
              THEN
                LET tgt_data == st.board[target_cell]
                    required == (pointing + 2) % 4
                    tb_idx == FirstFreeBase(tgt_data, required)
                    board1 == st.board
                    current_tgt == board1[target_cell]
                    board2 == [board1 EXCEPT ![target_cell] =
                                 _update_gear_str_bases(current_tgt,
                                    [current_tgt.bases_code EXCEPT
                                        ![tb_idx + 1] = 1])]
                IN  IF tb_idx = None THEN st
                    ELSE [st EXCEPT
                            !.board = board2,
                            !.mice[mid] = [m EXCEPT !.pos = target_cell,
                                                    !.on_base = tb_idx],
                            !.score = @ + SCORE_POINTS(pointing)]
              ELSE st

\* The body of _check_jumps' loop for mouse mid (lines 672-743).
JumpMouse(st, mid) ==
    LET m == st.mice[mid]
    IN  IF st.exc # "" \/ m.pos \notin DOMAIN st.board THEN st
        ELSE IF ~IsGear(st.board[m.pos]) THEN [st EXCEPT !.exc = "TypeError"]
        ELSE
          LET curr == st.board[m.pos]
              pointing == _calc_vector_sum(curr.rot, m.on_base)
              d == DIRECTION_DELTAS(pointing)
              c == _get_coords(m.pos)
              target_cell == _get_cell_from_coords(c[1] + d[1], c[2] + d[2])
              freed == _update_gear_str_bases(curr,
                           [curr.bases_code EXCEPT ![m.on_base + 1] = 0])
          IN  IF target_cell = NoCell THEN st
              ELSE IF _get_coords(target_cell)[2] > dims[2] THEN
                IF pointing = 0 THEN Escape(st, mid) ELSE st
              ELSE IF /\ target_cell \in DOMAIN st.board
                      /\ IsGear(st.board[target_cell])
              THEN
                LET tgt_data == st.board[target_cell]
                    required == (pointing + 2) % 4
                    tb_idx == FirstFreeBase(tgt_data, required)
                    board1 == [st.board EXCEPT ![m.pos] = freed]
                    current_tgt == board1[target_cell]
                    board2 == [board1 EXCEPT ![target_cell] =
                                 _update_gear_str_bases(current_tgt,
                                    [current_tgt.bases_code EXCEPT
                                        ![tb_idx + 1] = 1])]
                IN  IF tb_idx = None THEN st
                    ELSE [st EXCEPT
                            !.board = board2,
                            !.mice[mid] = [m EXCEPT !.pos = target_cell,
                                                    !.on_base = tb_idx],
                            !.score = @ + SCORE_POINTS(pointing)]
              ELSE st

RECURSIVE JumpsFrom(_, _, _)
JumpsFrom(st, active_mice, mid) ==
    IF mid > Len(st.mice) THEN st
    ELSE Bind(IF mid \in active_mice THEN JumpMouse(st, mid) ELSE st,
              LAMBDA s : JumpsFrom(s, active_mice, mid + 1))

\* _check_jumps: the mice IN_PLAY when the pass starts, each once, in order.
_check_jumps(st) ==
    JumpsFrom(st, {mid \in DOMAIN st.mice : st.mice[mid].status = "IN_PLAY"}, 1)

-----------------------------------------------------------------------------
(* 5. Commands.  A segment is the record of the tokens one regular         *)
(* expression looks for; re.match anchors only the start, so text after    *)
(* the matched prefix is not part of the record.                           *)
(*   "G4@P21(b=0)+90"  [form |-> "place", g_type, cell, b, rot]            *)
(*   "G@P21+90"        [form |-> "rotate", cell, rot]                      *)
(*   "G@P21:b=2"       [form |-> "premove", cell, b]                       *)
(*   "P21+90"          [form |-> "cell_rotate", cell, rot]                 *)
(*   "P21:b=2"         [form |-> "cell_premove", cell, b]                  *)
(*   ""                [form |-> "blank"]                                  *)
(*   anything else     [form |-> "junk"]                                   *)
(* g_type is "G" and one digit, b is one digit, cell is the digits after P.*)

\* re.match(r"(G\d)@(P\d+)\(b=(\d)\)([+-]90)", main_move)
MatchPhase1(segment) == segment.form = "place"

\* re.match(r"G@(P\d+)([+-]90)", main_move)
\* A variant of the Phase 2 pattern that also takes the bare cell form.
MatchPhase2_bare_cell(segment) == segment.form \in {"rotate", "cell_rotate"}

MatchPhase2(segment) == segment.form = "rotate"

\* re.match(r"G@(P\d+):b=(\d)", pre_move)
MatchPreMove(segment) == segment.form = "premove"

\* `if pre_move:` -- None (one segment only) and "" are both false.
HasPreMove(parts) == Len(parts) > 1 /\ parts[1].form # "blank"

-----------------------------------------------------------------------------
(* 6. process_move                                                         *)

\* A variant of Raise after which the failed move has cost ten points.
RaisePenalised(st, exc, msg) ==
    [exc |-> exc, msg |-> msg, st |-> [st EXCEPT !.score = @ - 10]]

\* A raise inside the try block: the exception, its text, the state so far.
Raise(st, exc, msg) == [exc |-> exc, msg |-> msg, st |-> st]

\* The try block came through the phase logic.
Done(st) == [exc |-> "", msg |-> "OK", st |-> st]

\* Phase 1, B. Execution and C. Physics (lines 503-514).
\* A variant of the placement that adds to the inventory count.
PlacementExecuteReturnsGear(st, main_move) ==
    LET g_type == main_move.g_type
        cell_id == main_move.cell
        content == st.board[cell_id]
        topo == content.topo
        valid_bases == Range(GEAR_BASES(g_type))
        bases_code == [i \in 1..4 |-> IF (i - 1) \notin valid_bases THEN 2 ELSE 0]
        placed == [st EXCEPT
                     !.board[cell_id] = _build_gear_str(g_type, cell_id, topo,
                                                        main_move.b, bases_code),
                     !.inventory[g_type] = @ + 1]
    IN  Bind(placed, LAMBDA s1 :
          Bind(_check_entries(s1), LAMBDA s2 :
            _apply_rotation(s2, cell_id, main_move.rot)))

\* A variant of the placement that marks every base of the new gear Empty.
PlacementExecuteFourBases(st, main_move) ==
    LET g_type == main_move.g_type
        cell_id == main_move.cell
        content == st.board[cell_id]
        topo == content.topo
        bases_code == [i \in 1..4 |-> 0]
        placed == [st EXCEPT
                     !.board[cell_id] = _build_gear_str(g_type, cell_id, topo,
                                                        main_move.b, bases_code),
                     !.inventory[g_type] = @ - 1]
    IN  Bind(placed, LAMBDA s1 :
          Bind(_check_entries(s1), LAMBDA s2 :
            _apply_rotation(s2, cell_id, main_move.rot)))

PlacementExecute(st, main_move) ==
    LET g_type == main_move.g_type
        cell_id == main_move.cell
        content == st.board[cell_id]
        topo == content.topo
        valid_bases == Range(GEAR_BASES(g_type))
        bases_code == [i \in 1..4 |-> IF (i - 1) \notin valid_bases THEN 2 ELSE 0]
        placed == [st EXCEPT
                     !.board[cell_id] = _build_gear_str(g_type, cell_id, topo,
                                                        main_move.b, bases_code),
                     !.inventory[g_type] = @ - 1]
    IN  Bind(placed, LAMBDA s1 :
          Bind(_check_entries(s1), LAMBDA s2 :
            _apply_rotation(s2, cell_id, main_move.rot)))

\* Phase 1 (lines 469-514): the checks in the code's order, then execution.
Placement(st, main_move) ==
    IF ~MatchPhase1(main_move)
    THEN Raise(st, "ValueError", "Invalid Format Phase 1")
    ELSE IF main_move.b \notin {0, 1, 2, 3}
    THEN Raise(st, "ValueError", "Invalid b")
    ELSE IF InventoryGet(st.inventory, main_move.g_type) < 1
    THEN Raise(st, "ValueError", "No gear remaining")
    ELSE IF main_move.cell \notin DOMAIN st.board
    THEN Raise(st, "KeyError", "KeyError")
    ELSE IF st.board[main_move.cell].kind = "obstacle"
    THEN Raise(st, "ValueError", "Is obstacle")
    ELSE IF IsGear(st.board[main_move.cell])
    THEN Raise(st, "ValueError", "Already occupied")
    ELSE
      LET is_first_row == _get_coords(main_move.cell)[2] = 1
          current_total_gears == InventorySum(st.inventory)
          initial_total_gears == InventorySum(GAME_LEVELS[level_id].inventory)
          is_board_empty == current_total_gears = initial_total_gears
      IN  IF is_board_empty /\ ~is_first_row
          THEN Raise(st, "ValueError", "Start Rule")
          ELSE IF ~is_board_empty /\ ~_check_adjacency(st, main_move.cell)
          THEN Raise(st, "ValueError", "Adjacency Rule")
          ELSE Done(PlacementExecute(st, main_move))

\* A variant of Phase 2 that sets the pre-move gear after the cascade.
RotationPreMoveLast(st, main_move, parts) ==
    IF ~MatchPhase2(main_move)
    THEN Raise(st, "ValueError", "Invalid Format Phase 2")
    ELSE IF main_move.cell \notin DOMAIN st.board
    THEN Raise(st, "KeyError", "KeyError")
    ELSE IF ~IsGear(st.board[main_move.cell])
    THEN Raise(st, "ValueError", "Not a Gear")
    ELSE IF ~HasPreMove(parts)
    THEN Done(_apply_rotation(st, main_move.cell, main_move.rot))
    ELSE
      LET pre_move == parts[1]
      IN  IF ~MatchPreMove(pre_move)
          THEN Raise(st, "ValueError", "Invalid Pre-Move Format")
          ELSE IF pre_move.b \notin {0, 1, 2, 3}
          THEN Raise(st, "ValueError", "Invalid Pre-move b")
          ELSE IF pre_move.cell \notin DOMAIN st.board
          THEN Raise(st, "KeyError", "KeyError")
          ELSE
            Done(Bind(_apply_rotation(st, main_move.cell, main_move.rot),
                      LAMBDA s :
                        IF IsGear(s.board[pre_move.cell])
                        THEN [s EXCEPT !.board[pre_move.cell] =
                                _update_gear_str_rotation(@, pre_move.b)]
                        ELSE s))

\* Phase 2 (lines 520-543).
Rotation(st, main_move, parts) ==
    IF ~MatchPhase2(main_move)
    THEN Raise(st, "ValueError", "Invalid Format Phase 2")
    ELSE IF main_move.cell \notin DOMAIN st.board
    THEN Raise(st, "KeyError", "KeyError")
    ELSE IF ~IsGear(st.board[main_move.cell])
    THEN Raise(st, "ValueError", "Not a Gear")
    ELSE IF ~HasPreMove(parts)
    THEN Done(_apply_rotation(st, main_move.cell, main_move.rot))
    ELSE
      LET pre_move == parts[1]
      IN  IF ~MatchPreMove(pre_move)
          THEN Raise(st, "ValueError", "Invalid Pre-Move Format")
          ELSE IF pre_move.b \notin {0, 1, 2, 3}
          THEN Raise(st, "ValueError", "Invalid Pre-move b")
          ELSE IF pre_move.cell \notin DOMAIN st.board
          THEN Raise(st, "KeyError", "KeyError")
          ELSE
            LET forced ==
                    IF IsGear(st.board[pre_move.cell])
                    THEN [st EXCEPT !.board[pre_move.cell] =
                            _update_gear_str_rotation(@, pre_move.b)]
                    ELSE st
            IN  Done(Bind(forced, LAMBDA s :
                        _apply_rotation(s, main_move.cell, main_move.rot)))

\* Lines 459-543: split the command, then the phase's logic.  A command that
\* is no string dies on move_str.split.
PhaseLogic(st0, is_placement_phase, move_str) ==
  Bind(st0, LAMBDA st :
    IF move_str.kind # "str"
    THEN Raise(st, "AttributeError", "AttributeError")
    ELSE
      LET parts == move_str.parts
          main_move == parts[Len(parts)]
      IN  IF is_placement_phase THEN Placement(st, main_move)
          ELSE Rotation(st, main_move, parts))

\* The row _trigger_entropy works on: height - 1, or 1 on a one-row board.
EntropyRow ==
    LET target_y == dims[2] - 1
    IN  IF target_y < 1 THEN 1 ELSE target_y

\* row_coords: the row's cells that hold a gear, by increasing x.
RowCoords(st) ==
    LET HoldsGear(c) == c \in DOMAIN st.board /\ IsGear(st.board[c])
    IN  SelectSeq([x \in 1..dims[1] |-> <<x, EntropyRow>>], HoldsGear)

\* What random.shuffle and the random.randint(0, 3) calls may return for n
\* gears: shuffle[i] is the index, before the shuffle, of the gear the list
\* holds at i after it; new_b[i] is the rotation drawn in iteration i.
EntropyDraws(n) ==
    {d \in [shuffle : [1..n -> 1..n], new_b : [1..n -> 0..3]] :
        \A i, j \in 1..n : d.shuffle[i] = d.shuffle[j] => i = j}

\* A variant of _trigger_entropy that rebuilds each relocated gear with all
\* the bases of its type empty.
_trigger_entropy_fresh_bases(st, d) ==
    LET row_coords == RowCoords(st)
        n == Len(row_coords)
        gear_data_list == [i \in 1..n |-> st.board[row_coords[d.shuffle[i]]]]
        Rebuilt(i) ==
            _build_gear_str(gear_data_list[i].type, row_coords[i],
                            Topology(_get_coords(row_coords[i])[1],
                                     _get_coords(row_coords[i])[2]),
                            d.new_b[i],
                            [b \in 1..4 |->
                                IF (b - 1) \in Range(GEAR_BASES(gear_data_list[i].type))
                                THEN 0 ELSE 2])
    IN  IF n = 0 THEN st
        ELSE [st EXCEPT
                !.board = [c \in DOMAIN st.board |->
                             IF \E i \in 1..n : row_coords[i] = c
                             THEN Rebuilt(CHOOSE i \in 1..n : row_coords[i] = c)
                             ELSE st.board[c]]]

\* A variant of _trigger_entropy that leaves every mouse where it stood.
_trigger_entropy_no_payload(st, d) ==
    LET row_coords == RowCoords(st)
        n == Len(row_coords)
        gear_data_list == [i \in 1..n |-> st.board[row_coords[d.shuffle[i]]]]
        Rebuilt(i) ==
            _build_gear_str(gear_data_list[i].type, row_coords[i],
                            Topology(_get_coords(row_coords[i])[1],
                                     _get_coords(row_coords[i])[2]),
                            d.new_b[i], gear_data_list[i].bases_code)
    IN  IF n = 0 THEN st
        ELSE [st EXCEPT
                !.board = [c \in DOMAIN st.board |->
                             IF \E i \in 1..n : row_coords[i] = c
                             THEN Rebuilt(CHOOSE i \in 1..n : row_coords[i] = c)
                             ELSE st.board[c]]]

\* A variant of _trigger_entropy that rebuilds each relocated gear with the
\* topology it had on its origin cell.
_trigger_entropy_keep_topology(st, d) ==
    LET row_coords == RowCoords(st)
        n == Len(row_coords)
        gear_data_list == [i \in 1..n |-> st.board[row_coords[d.shuffle[i]]]]
        origins == {gear_data_list[i].pos : i \in 1..n}
        mouse_moves_map ==
            [o \in origins |->
                row_coords[CHOOSE i \in 1..n : gear_data_list[i].pos = o]]
        Rebuilt(i) ==
            _build_gear_str(gear_data_list[i].type, row_coords[i],
                            gear_data_list[i].topo,
                            d.new_b[i], gear_data_list[i].bases_code)
    IN  IF n = 0 THEN st
        ELSE [st EXCEPT
                !.board = [c \in DOMAIN st.board |->
                             IF \E i \in 1..n : row_coords[i] = c
                             THEN Rebuilt(CHOOSE i \in 1..n : row_coords[i] = c)
                             ELSE st.board[c]],
                !.mice = [mid \in DOMAIN st.mice |->
                            IF /\ st.mice[mid].status = "IN_PLAY"
                               /\ st.mice[mid].pos \in origins
                            THEN [st.mice[mid] EXCEPT
                                    !.pos = mouse_moves_map[st.mice[mid].pos]]
                            ELSE st.mice[mid]]]

\* A variant of _trigger_entropy that rebuilds every cell of the row from
\* the first gear of the shuffled list.
_trigger_entropy_copy_first(st, d) ==
    LET row_coords == RowCoords(st)
        n == Len(row_coords)
        gear_data_list == [i \in 1..n |-> st.board[row_coords[d.shuffle[1]]]]
        Rebuilt(i) ==
            _build_gear_str(gear_data_list[i].type, row_coords[i],
                            Topology(_get_coords(row_coords[i])[1],
                                     _get_coords(row_coords[i])[2]),
                            d.new_b[i], gear_data_list[i].bases_code)
    IN  IF n = 0 THEN st
        ELSE [st EXCEPT
                !.board = [c \in DOMAIN st.board |->
                             IF \E i \in 1..n : row_coords[i] = c
                             THEN Rebuilt(CHOOSE i \in 1..n : row_coords[i] = c)
                             ELSE st.board[c]]]

\* _trigger_entropy with the draws d (lines 387-440).
_trigger_entropy(st, d) ==
    LET row_coords == RowCoords(st)
        n == Len(row_coords)
        gear_data_list == [i \in 1..n |-> st.board[row_coords[d.shuffle[i]]]]
        origins == {gear_data_list[i].pos : i \in 1..n}
        \* a dict: the last write to a key stands
        mouse_moves_map ==
            [o \in origins |->
                row_coords[CHOOSE i \in 1..n :
                              /\ gear_data_list[i].pos = o
                              /\ \A j \in 1..n :
                                    gear_data_list[j].pos = o => j <= i]]
        Rebuilt(i) ==
            _build_gear_str(gear_data_list[i].type, row_coords[i],
                            Topology(_get_coords(row_coords[i])[1],
                                     _get_coords(row_coords[i])[2]),
                            d.new_b[i], gear_data_list[i].bases_code)
    IN  IF n = 0 THEN st
        ELSE [st EXCEPT
                !.board = [c \in DOMAIN st.board |->
                             IF \E i \in 1..n : row_coords[i] = c
                             THEN Rebuilt(CHOOSE i \in 1..n : row_coords[i] = c)
                             ELSE st.board[c]],
                !.mice = [mid \in DOMAIN st.mice |->
                            IF /\ st.mice[mid].status = "IN_PLAY"
                               /\ st.mice[mid].pos \in origins
                            THEN [st.mice[mid] EXCEPT
                                    !.pos = mouse_moves_map[st.mice[mid].pos]]
                            ELSE st.mice[mid]]]

\* _count_rescued_mice
_count_rescued_mice(m) ==
    Cardinality({mid \in DOMAIN m : m[mid].status = "ESCAPED"})

\* int(x / y) for y > 0: Python's int() cuts the fraction off, toward zero.
IntOfQuotient(x, y) == IF x >= 0 THEN x \div y ELSE -((-x) \div y)

\* _calculate_final_score
_calculate_final_score(score, ideal, count) ==
    IF count = 0 THEN 0 ELSE IntOfQuotient(score * ideal, count)

\* A variant of ExceptClause: `except ValueError`.
ExceptValueError(exc) == exc = "ValueError"

\* `except Exception as e`: what the handler catches.
ExceptClause(exc) == TRUE

\* A variant of _update_metrics that looks at the budget first.
_update_metrics_budget_first(m, count, score, over, res) ==
    LET rescued == _count_rescued_mice(m)
        timeout == count >= max_moves
        victory == ~timeout /\ rescued = Len(m)
        now_over == over \/ victory \/ timeout
    IN  [completion_percent |-> (rescued * 100000) \div Len(m),
         is_game_over |-> now_over,
         game_result |-> IF timeout THEN "TIMEOUT"
                         ELSE IF victory THEN "VICTORY" ELSE res,
         final_benchmark_score |->
            IF now_over THEN _calculate_final_score(score, ideal_moves, count)
            ELSE 0]

\* A variant of _update_metrics that ends the game one move past the budget.
_update_metrics_past_budget(m, count, score, over, res) ==
    LET rescued == _count_rescued_mice(m)
        victory == rescued = Len(m)
        timeout == ~victory /\ count > max_moves
        now_over == over \/ victory \/ timeout
    IN  [completion_percent |-> (rescued * 100000) \div Len(m),
         is_game_over |-> now_over,
         game_result |-> IF victory THEN "VICTORY"
                         ELSE IF timeout THEN "TIMEOUT" ELSE res,
         final_benchmark_score |->
            IF now_over THEN _calculate_final_score(score, ideal_moves, count)
            ELSE 0]

\* _update_metrics (lines 755-770) for the mice m, the new moves_count and
\* the score; over and res are is_game_over and game_result as they stand.
_update_metrics(m, count, score, over, res) ==
    LET rescued == _count_rescued_mice(m)
        total == Len(m)
        victory == rescued = total
        timeout == ~victory /\ count >= max_moves
        now_over == over \/ victory \/ timeout
    IN  [completion_percent |-> (rescued * 100000) \div total,
         is_game_over |-> now_over,
         game_result |-> IF victory THEN "VICTORY"
                         ELSE IF timeout THEN "TIMEOUT" ELSE res,
         final_benchmark_score |->
            IF now_over THEN _calculate_final_score(score, ideal_moves, count)
            ELSE 0]

\* What the try block leaves in the engine's fields.
Store(st, triggered) ==
    /\ board' = st.board
    /\ inventory' = st.inventory
    /\ mice' = st.mice
    /\ score_accumulated' = st.score
    /\ entropy_triggered' = triggered
    /\ UNCHANGED <<level_id, dims, max_moves, ideal_moves>>

\* A variant of Conclude that logs and charges successful moves only.
ConcludeSuccessOnly(st, triggered, failed, msg) ==
    LET count == IF failed THEN moves_count ELSE moves_count + 1
        metrics == _update_metrics(st.mice, count, st.score, is_game_over,
                                   game_result)
    IN  /\ Store(st, triggered)
        /\ history' = IF failed THEN history
                      ELSE Append(history, [turn |-> count, error |-> failed])
        /\ moves_count' = count
        /\ completion_percent' = metrics.completion_percent
        /\ is_game_over' = metrics.is_game_over
        /\ game_result' = metrics.game_result
        /\ final_benchmark_score' = metrics.final_benchmark_score
        /\ result' = [kind |-> "returned", success |-> ~failed, msg |-> msg]

\* Lines 562-575 (failed = FALSE) and 577-589 (failed = TRUE): the history
\* entry "J<n>: ..." or "J<n>: [ERROR] ...", the turn, the metrics, the
\* returned dict.
Conclude(st, triggered, failed, msg) ==
    LET count == moves_count + 1
        metrics == _update_metrics(st.mice, count, st.score, is_game_over,
                                   game_result)
    IN  /\ Store(st, triggered)
        /\ history' = Append(history, [turn |-> count, error |-> failed])
        /\ moves_count' = count
        /\ completion_percent' = metrics.completion_percent
        /\ is_game_over' = metrics.is_game_over
        /\ game_result' = metrics.game_result
        /\ final_benchmark_score' = metrics.final_benchmark_score
        /\ result' = [kind |-> "returned", success |-> ~failed, msg |-> msg]

\* An exception of the try block: handled by the except clause, or leaving
\* process_move.
Except(st, triggered, exc, msg) ==
    IF ExceptClause(exc)
    THEN Conclude(st, triggered, TRUE, msg)
    ELSE /\ Store(st, triggered)
         /\ result' = [kind |-> "raised", exc |-> exc]
         /\ UNCHANGED <<moves_count, is_game_over, game_result,
                        completion_percent, final_benchmark_score, history>>

\* Lines 548-557: entropy when due (with the draws d), then the entries.
BeforeJumps(st, due, d) ==
    Bind(IF due THEN _trigger_entropy(st, d) ELSE st, LAMBDA s1 :
      _check_entries(s1))

\* Lines 548-560: entropy when due, entries, jumps.
AfterPhase(st, due, d) ==
    Bind(BeforeJumps(st, due, d), LAMBDA s2 : _check_jumps(s2))

\* entropy_msg as it ends the returned message.
EntropyMsg(st, due) ==
    IF ~due THEN "OK"
    ELSE IF Len(RowCoords(st)) = 0 THEN "OK | ENTROPY: No targets."
    ELSE "OK | TOTAL ENTROPY"

\* Lines 459-543 for the command move_str, on the session's fields as they
\* stand: how the phase logic ends.
TryPhase(move_str) ==
    PhaseLogic([board |-> board, inventory |-> inventory, mice |-> mice,
                score |-> score_accumulated, exc |-> ""],
               InventorySum(inventory) > 0, move_str)

\* A variant of EntropyDue: whenever the inventory is empty.
EntropyDueWhenEmpty(p) == InventorySum(p.st.inventory) = 0

\* Line 551: is_placement_phase and is_now_empty and not entropy_triggered,
\* after the phase logic ended as p.
EntropyDue(p) ==
    LET is_placement_phase == InventorySum(inventory) > 0
        is_now_empty == InventorySum(p.st.inventory) = 0
    IN  is_placement_phase /\ is_now_empty /\ ~entropy_triggered

\* Lines 545-589, after the phase logic ended as p.
Finish(p) ==
    LET due == EntropyDue(p)
    IN  IF p.exc # ""
        THEN Except(p.st, entropy_triggered, p.exc, p.msg)
        ELSE
          \E d \in EntropyDraws(IF due THEN Len(RowCoords(p.st)) ELSE 0) :
            \E st2 \in {AfterPhase(p.st, due, d)} :
              IF st2.exc # ""
              THEN Except(st2, entropy_triggered \/ due, st2.exc, st2.exc)
              ELSE Conclude(st2, entropy_triggered \/ due, FALSE,
                            EntropyMsg(p.st, due))

\* A variant of GameEnded that charges the rejected call a turn.
GameEndedCharged ==
    /\ result' = [kind |-> "returned", success |-> FALSE, msg |-> "Game ended."]
    /\ moves_count' = moves_count + 1
    /\ UNCHANGED <<level_id, dims, inventory, max_moves, ideal_moves,
                   score_accumulated, is_game_over, game_result,
                   completion_percent, final_benchmark_score, history,
                   entropy_triggered, board, mice>>

\* Lines 447-453: a terminated session returns at once.
\* A variant of the game-over return that logs the refused call as a turn.
GameEndedLogged ==
    /\ result' = [kind |-> "returned", success |-> FALSE, msg |-> "Game ended."]
    /\ history' = Append(history, [turn |-> moves_count + 1, error |-> TRUE])
    /\ UNCHANGED <<level_id, dims, inventory, max_moves, ideal_moves,
                   moves_count, score_accumulated, is_game_over, game_result,
                   completion_percent, final_benchmark_score,
                   entropy_triggered, board, mice>>

GameEnded ==
    /\ result' = [kind |-> "returned", success |-> FALSE, msg |-> "Game ended."]
    /\ UNCHANGED session

process_move(move_str) ==
    IF is_game_over THEN GameEnded
    ELSE \E p \in {TryPhase(move_str)} : Finish(p)

reset(lvl) ==
    LET r == ResetValue(lvl)
    IN  /\ level_id' = r.level_id
        /\ dims' = r.dims
        /\ inventory' = r.inventory
        /\ max_moves' = r.max_moves
        /\ ideal_moves' = r.ideal_moves
        /\ moves_count' = 0
        /\ score_accumulated' = 0
        /\ is_game_over' = FALSE
        /\ game_result' = "IN_PROGRESS"
        /\ completion_percent' = 0
        /\ final_benchmark_score' = 0
        /\ history' = <<>>
        /\ entropy_triggered' = FALSE
        /\ board' = r.board
        /\ mice' = r.mice
        /\ result' = [kind |-> "reset", level_id |-> lvl]

-----------------------------------------------------------------------------
(* 7. The sessions explored: every command of Commands on the levels of   *)
(* SessionLevels.                                                          *)

Str(parts) == [kind |-> "str", parts |-> parts]

\* Cells named in commands: those of the 2 x 2 board, and P31, on no board.
CommandCells == {<<1, 1>>, <<2, 1>>, <<1, 2>>, <<2, 2>>, <<3, 1>>}

Rots == {"+90", "-90"}

\* Placement segments: every gear type, cell, b and direction, and the
\* unknown type G5 and the digit 4 for b.
PlaceSegments ==
    {[form |-> "place", g_type |-> g, cell |-> c, b |-> b, rot |-> r] :
        g \in GearTypes, c \in CommandCells \ {<<3, 1>>}, b \in 0..3, r \in Rots}
    \cup {[form |-> "place", g_type |-> "G5", cell |-> <<1, 1>>, b |-> 0, rot |-> "+90"],
          [form |-> "place", g_type |-> "G4", cell |-> <<3, 1>>, b |-> 0, rot |-> "+90"],
          [form |-> "place", g_type |-> "G4", cell |-> <<1, 1>>, b |-> 4, rot |-> "+90"]}

RotateSegments ==
    {[form |-> "rotate", cell |-> c, rot |-> r] : c \in CommandCells, r \in Rots}

PreMoveSegments ==
    {[form |-> "premove", cell |-> c, b |-> b] :
        c \in CommandCells \ {<<3, 1>>}, b \in 0..3}
    \cup {[form |-> "premove", cell |-> <<3, 1>>, b |-> 0],
          [form |-> "premove", cell |-> <<1, 1>>, b |-> 4],
          [form |-> "cell_premove", cell |-> <<1, 1>>, b |-> 0],
          [form |-> "blank"], [form |-> "junk"]}

Commands ==
    {Str(<<s>>) : s \in PlaceSegments \cup RotateSegments}
    \cup {Str(<<p, s>>) : p \in PreMoveSegments, s \in RotateSegments}
    \cup {Str(<<[form |-> "junk"], s>>) : s \in PlaceSegments}
    \cup {Str(<<[form |-> "cell_rotate", cell |-> <<1, 1>>, rot |-> "+90"]>>),
          Str(<<[form |-> "junk"]>>), Str(<<[form |-> "blank"]>>),
          [kind |-> "none"]}

Start(lvl) ==
    LET r == ResetValue(lvl)
    IN  /\ level_id = r.level_id
        /\ dims = r.dims
        /\ inventory = r.inventory
        /\ max_moves = r.max_moves
        /\ ideal_moves = r.ideal_moves
        /\ moves_count = 0
        /\ score_accumulated = 0
        /\ is_game_over = FALSE
        /\ game_result = "IN_PROGRESS"
        /\ completion_percent = 0
        /\ final_benchmark_score = 0
        /\ history = <<>>
        /\ entropy_triggered = FALSE
        /\ board = r.board
        /\ mice = r.mice
        /\ result = [kind |-> "reset", level_id |-> lvl]

\* The session after construction: __init__ ends in reset("1").
Init == Start("1")

\* The sessions followed: to the end on the reduced levels, for Level1Moves
\* moves on level "1".
Followed == level_id = "1" => moves_count < Level1Moves

\* Some command is processed: \E move_str \in Commands : process_move(move_str),
\* with the commands whose phase logic ends alike explored together.
Move ==
    /\ Followed
    /\ IF is_game_over THEN GameEnded
       ELSE \E p \in {TryPhase(move_str) : move_str \in Commands} : Finish(p)

\* start_game: the session is reset to a level.
Restart == \E lvl \in SessionLevels \cup UnknownLevels : reset(lvl)

Next == Move \/ Restart

Spec == Init /\ [][Next]_vars

-----------------------------------------------------------------------------
(* 8. Properties.  result is what the last call gave back: a step whose    *)
(* result' is "returned" is a process_move call, one whose result' is      *)
(* "reset" a reset.                                                        *)

\* The step is a process_move call that returned.
Returned == result'.kind = "returned"

\* One command of each form: a placement, a rotation, a rotation with a
\* pre-move, the unknown gear type, the cell the board lacks, the rotation
\* written without "G@", text that is no command, the empty string, None.
CommandForms ==
    {Str(<<[form |-> "place", g_type |-> "G4", cell |-> <<1, 1>>, b |-> 0, rot |-> "+90"]>>),
     Str(<<[form |-> "place", g_type |-> "G5", cell |-> <<1, 1>>, b |-> 0, rot |-> "+90"]>>),
     Str(<<[form |-> "place", g_type |-> "G4", cell |-> <<3, 1>>, b |-> 0, rot |-> "+90"]>>),
     Str(<<[form |-> "rotate", cell |-> <<1, 1>>, rot |-> "-90"]>>),
     Str(<<[form |-> "premove", cell |-> <<1, 1>>, b |-> 2],
           [form |-> "rotate", cell |-> <<2, 1>>, rot |-> "+90"]>>),
     Str(<<[form |-> "cell_rotate", cell |-> <<1, 1>>, rot |-> "+90"]>>),
     Str(<<[form |-> "junk"]>>),
     Str(<<[form |-> "blank"]>>),
     [kind |-> "none"]}

\* C1: once the session is game-over, process_move, whatever the command,
\* returns success = false and leaves every field of the session as it was
\* (turn counter, history, board, inventory, mice, scores, game-over flag and
\* result), so no process_move call leaves game-over or changes the result.
C1_GameOverIsFrozen ==
    [][(is_game_over /\ result'.kind # "reset") =>
          \A move_str \in CommandForms :
              process_move(move_str) =>
                  /\ result' = [kind |-> "returned", success |-> FALSE,
                                msg |-> "Game ended."]
                  /\ UNCHANGED session
                  /\ is_game_over'
                  /\ game_result' \in {"VICTORY", "TIMEOUT"}]_vars

\* A call was rejected on a session that ended in victory.
C1_Witness ==
    /\ game_result = "VICTORY"
    /\ result = [kind |-> "returned", success |-> FALSE, msg |-> "Game ended."]

\* C2: process_move never raises past its boundary: whatever the command
\* (malformed, naming a cell the board lacks or an unknown gear type, with a
\* base index out of range, with a bad pre-move, or no string at all), the
\* call returns a result with a success flag and a message.
C2_NeverRaises ==
    /\ result.kind \in {"reset", "returned"}
    /\ result.kind = "returned" => DOMAIN result = {"kind", "success", "msg"}
    /\ result.kind = "returned" => result.success \in BOOLEAN

\* An exception that is no ValueError was turned into a failed move.
C2_Witness ==
    /\ result.kind = "returned"
    /\ ~result.success
    /\ result.msg \in {"KeyError", "AttributeError"}

\* C3: a process_move call on a session that is not game-over, successful or
\* not, adds exactly 1 to the turn counter and appends exactly one history
\* entry, marked failed exactly when the call failed; so the history is as
\* long as the turn counter.
C3_TurnAndHistory ==
    /\ [](Len(history) = moves_count)
    /\ [][(~is_game_over /\ Returned) =>
            /\ moves_count' = moves_count + 1
            /\ history' = Append(history, [turn |-> moves_count + 1,
                                           error |-> ~result'.success])]_vars

\* A session with a failed move and a successful move behind it.
C3_Witness ==
    /\ moves_count >= 2
    /\ \E i, j \in 1..Len(history) : history[i].error /\ ~history[j].error

\* C4: a move that fails on a session that is not game-over leaves the
\* board, the inventory, the mice and the accumulated score as they were.
C4_FailedMoveFrame ==
    [][(~is_game_over /\ Returned /\ ~result'.success) =>
          /\ board' = board
          /\ inventory' = inventory
          /\ mice' = mice
          /\ score_accumulated' = score_accumulated]_vars

\* A move failed on a board that holds a gear with a mouse on it, in a
\* session that has points.
C4_Witness ==
    /\ result.kind = "returned"
    /\ ~result.success
    /\ result.msg # "Game ended."
    /\ score_accumulated > 0
    /\ \E mid \in DOMAIN mice : mice[mid].status = "IN_PLAY"

\* The phase logic takes move_str without raising.  process_move returns
\* success for no other command: an exception there ends in the except
\* clause, and a game-over session rejects the call.
Accepted(move_str) == ~is_game_over /\ TryPhase(move_str).exc = ""

\* The four orthogonal neighbours of a cell.
Orthogonal(c) ==
    {<<c[1] + 1, c[2]>>, <<c[1] - 1, c[2]>>, <<c[1], c[2] + 1>>, <<c[1], c[2] - 1>>}

\* C5: the first placement of a session (the inventory totals what the level
\* starts with) is accepted only on a cell of row 1, and every later
\* placement only on a cell with a gear on one of its four orthogonal
\* neighbours; a placement that breaks the rule fails.
C5_AdjacencyRule ==
    \A s \in PlaceSegments :
        Accepted(Str(<<s>>)) =>
            IF InventorySum(inventory)
                 = InventorySum(GAME_LEVELS[level_id].inventory)
            THEN s.cell[2] = 1
            ELSE \E n \in Orthogonal(s.cell) :
                    n \in DOMAIN board /\ IsGear(board[n])

\* A placement was refused for want of a neighbour after the first gear was
\* placed in row 1.
C5_Witness ==
    /\ result.kind = "returned"
    /\ result.msg = "Adjacency Rule"
    /\ \E c \in DOMAIN board : IsGear(board[c]) /\ c[2] = 1

\* C6: a placement is accepted only if the inventory holds a unit of the
\* named gear type, the target cell exists, is no obstacle and holds no gear,
\* and b is one of 0, 1, 2, 3; otherwise the move fails.
C6_PlacementPreconditions ==
    \A s \in PlaceSegments :
        Accepted(Str(<<s>>)) =>
            /\ s.g_type \in DOMAIN inventory
            /\ inventory[s.g_type] > 0
            /\ s.cell \in DOMAIN board
            /\ board[s.cell].kind # "obstacle"
            /\ ~IsGear(board[s.cell])
            /\ s.b \in {0, 1, 2, 3}

\* After a gear was placed, a placement was refused because the inventory
\* had no unit of its type left.
C6_Witness ==
    /\ result.kind = "returned"
    /\ result.msg = "No gear remaining"
    /\ \E c \in DOMAIN board : IsGear(board[c])

\* The rotation the gear on cell c has when the cascade of the command
\* starts: the b of the placement that puts it there, the b a pre-move has
\* just set, or the rotation it had before the call.
RotBefore(parts, c) ==
    LET main_move == parts[Len(parts)]
    IN  IF main_move.form = "place"
        THEN (IF main_move.cell = c THEN main_move.b ELSE board[c].rot)
        ELSE IF HasPreMove(parts) /\ parts[1].cell = c THEN parts[1].b
        ELSE board[c].rot

\* C7: the cascade of one command turns every gear on the board: each gear's
\* rotation changes by +1 or -1 mod 4 and stays in 0..3, two gears of equal
\* topology change by the same signed delta, two gears of different topology
\* by opposite deltas, and the driver's delta (so that of every gear of its
\* topology) is fixed by the commanded direction, opposite for +90 and -90.
C7_CascadeParity ==
    is_game_over \/ \E plus \in {1, 3} :
      \A move_str \in Commands \ {[kind |-> "none"]} :
        \A p \in {TryPhase(move_str)} :
          p.exc = "" =>
            \A after \in {p.st.board} :
              LET parts == move_str.parts
                  driver == parts[Len(parts)]
                  gears == {c \in DOMAIN after : IsGear(after[c])}
                  Delta(c) == (after[c].rot - RotBefore(parts, c)) % 4
              IN  /\ Delta(driver.cell)
                        = (IF driver.rot = "+90" THEN plus ELSE 4 - plus)
                  /\ \A c1, c2 \in gears :
                        /\ after[c1].rot \in 0..3
                        /\ Delta(c1) \in {1, 3}
                        /\ after[c1].topo = after[c2].topo
                              => Delta(c1) = Delta(c2)
                        /\ after[c1].topo # after[c2].topo
                              => (Delta(c1) + Delta(c2)) % 4 = 0

\* A rotation move turned a board that holds gears of both topologies.
C7_Witness ==
    /\ result.kind = "returned"
    /\ result.success
    /\ result.msg = "OK"
    /\ InventorySum(inventory) = 0
    /\ \E c1, c2 \in DOMAIN board :
          /\ IsGear(board[c1]) /\ IsGear(board[c2])
          /\ board[c1].topo # board[c2].topo

\* C8: for the driving gear and every gear of its topology, a +90 command
\* gives (old rotation - 1) mod 4 and a -90 command (old rotation + 1) mod 4.
C8_PlusIsMinusOne ==
    is_game_over \/ \A s \in RotateSegments :
        \A p \in {TryPhase(Str(<<s>>))} :
          p.exc = "" =>
            \A c \in DOMAIN board :
                (IsGear(board[c]) /\ board[c].topo = board[s.cell].topo) =>
                    p.st.board[c].rot =
                        (board[c].rot + (IF s.rot = "+90" THEN -1 ELSE 1)) % 4

\* The call's message reports the entropy event: _trigger_entropy ran.
EntropyFired ==
    /\ Returned
    /\ result'.msg \in {"OK | TOTAL ENTROPY", "OK | ENTROPY: No targets."}

\* C9: between two resets the entropy event fires on the move that consumes
\* the last inventory unit and on no other move, earlier or later, whatever
\* rotations, pre-moves and failed moves follow: it fires at most once, and
\* the flag entropy_triggered is set exactly from that move on.
C9_EntropyOnce ==
    /\ [](entropy_triggered <=> InventorySum(inventory) = 0)
    /\ [][Returned =>
            /\ EntropyFired <=> (/\ InventorySum(inventory) > 0
                                 /\ InventorySum(inventory') = 0)
            /\ EntropyFired => ~entropy_triggered
            /\ entropy_triggered' <=> (entropy_triggered \/ EntropyFired)]_vars

\* After the event fired, a rotation move succeeded and a move failed, and
\* neither fired it again.
C9_Witness ==
    /\ entropy_triggered
    /\ result.kind = "returned"
    /\ result.msg = "OK"
    /\ Len(history) >= 2
    /\ history[Len(history) - 1].error

\* Mouse m, IN_PLAY in s, points off the board to the West, the East or the
\* South.
PointsOffSide(s, m) ==
    LET pointing == (s.board[m.pos].rot + m.on_base) % 4
    IN  \/ pointing = 1 /\ m.pos[1] = 1
        \/ pointing = 3 /\ m.pos[1] = dims[1]
        \/ pointing = 2 /\ m.pos[2] = 1

RECURSIVE SeqSum(_)
SeqSum(seq) == IF seq = <<>> THEN 0 ELSE Head(seq) + SeqSum(Tail(seq))

\* What one _check_jumps pass, from s1 to s2, does about escapes.
EscapeRule(s1, s2) ==
    LET Pointing(mid) ==
            (s1.board[s1.mice[mid].pos].rot + s1.mice[mid].on_base) % 4
        Escapes(mid) ==
            s2.mice[mid].status = "ESCAPED" /\ s1.mice[mid].status # "ESCAPED"
        Points(mid) ==
            IF Escapes(mid) THEN 10
            ELSE IF s2.mice[mid].pos # s1.mice[mid].pos
            THEN SCORE_POINTS(Pointing(mid))
            ELSE 0
    IN  /\ \A mid \in DOMAIN s1.mice :
              Escapes(mid) =>
                  /\ s1.mice[mid].status = "IN_PLAY"
                  /\ s1.mice[mid].pos[2] = dims[2]
                  /\ Pointing(mid) = 0
                  /\ s2.mice[mid] = [pos |-> OUT, on_base |-> None,
                                     status |-> "ESCAPED"]
                  /\ s2.board[s1.mice[mid].pos].bases_code[
                         s1.mice[mid].on_base + 1] = 0
        /\ \A mid \in DOMAIN s1.mice :
              (s1.mice[mid].status = "IN_PLAY" /\ PointsOffSide(s1, s1.mice[mid]))
                  => /\ s2.mice[mid] = s1.mice[mid]
                     /\ Points(mid) = 0
        /\ s2.score - s1.score
              = SeqSum([mid \in 1..Len(s1.mice) |-> Points(mid)])

\* C10: a mouse becomes ESCAPED only in the jump pass, by pointing North on
\* a gear of the top row: the jump frees its origin base, puts it off the
\* board on no base and adds exactly 10 to the score; a mouse that points off
\* the board to the West, the East or the South stays where it is and scores
\* nothing.
C10_EscapeOnlyNorth ==
    is_game_over \/
      \A p \in {TryPhase(move_str) : move_str \in Commands} :
        p.exc = "" =>
          \A d \in EntropyDraws(IF EntropyDue(p) THEN Len(RowCoords(p.st))
                                ELSE 0) :
            \A s1 \in {BeforeJumps(p.st, EntropyDue(p), d)} :
              /\ \A mid \in DOMAIN mice :
                    s1.mice[mid].status = "ESCAPED"
                        <=> mice[mid].status = "ESCAPED"
              /\ \A s2 \in {_check_jumps(s1)} : EscapeRule(s1, s2)

\* One mouse has escaped and scored while another, still in play, points
\* off the side of the board from where it stands.
C10_Witness ==
    /\ result.kind = "returned"
    /\ result.success
    /\ score_accumulated >= 10
    /\ \E a, b \in DOMAIN mice :
          /\ mice[a].status = "ESCAPED"
          /\ mice[b].status = "IN_PLAY"
          /\ PointsOffSide([board |-> board], mice[b])

RECURSIVE JumpPrefix(_, _, _)
\* The state of a jump pass started on s1 when the turn of mouse mid comes:
\* the active mice before it are resolved.
JumpPrefix(s1, active_mice, mid) ==
    IF mid = 1 THEN s1
    ELSE Bind(JumpPrefix(s1, active_mice, mid - 1), LAMBDA s :
            IF (mid - 1) \in active_mice THEN JumpMouse(s, mid - 1) ELSE s)

\* The bases of a gear that exist, point to direction dir and are empty.
AdmittingBases(gear, dir) ==
    {b \in Range(GEAR_BASES(gear.type)) :
        (gear.rot + b) % 4 = dir /\ gear.bases_code[b + 1] = 0}

\* The resolution of mouse mid, from s to t, admits the jump exactly when
\* the cell it points at holds a gear with an empty base facing it.
JumpAdmission(s, t, mid) ==
    LET m == s.mice[mid]
        d == (s.board[m.pos].rot + m.on_base) % 4
        target == <<m.pos[1] + DIRECTION_DELTAS(d)[1],
                    m.pos[2] + DIRECTION_DELTAS(d)[2]>>
        admitted == /\ IsGear(s.board[target])
                    /\ AdmittingBases(s.board[target], (d + 2) % 4) # {}
    IN  target \in DOMAIN s.board =>
          IF admitted
          THEN /\ t.mice[mid].status = "IN_PLAY"
               /\ t.mice[mid].pos = target
               /\ t.mice[mid].on_base
                     \in AdmittingBases(s.board[target], (d + 2) % 4)
               /\ t.board[target].bases_code[t.mice[mid].on_base + 1] = 1
               /\ t.board[m.pos].bases_code[m.on_base + 1] = 0
          ELSE /\ t.mice[mid] = m
               /\ t.board = s.board
               /\ t.score = s.score

\* C11: in every jump pass, an in-play mouse whose output direction
\* d = (gear rotation + base index) mod 4 points at a cell of the board moves
\* there iff that cell holds a gear with an existing base of absolute
\* direction (d + 2) mod 4 that is empty when the mouse is resolved; else
\* (empty cell, obstacle, no such base, base occupied) it keeps cell and base.
C11_JumpAdmission ==
    is_game_over \/
      \A p \in {TryPhase(move_str) : move_str \in Commands} :
        p.exc = "" =>
          \A d \in EntropyDraws(IF EntropyDue(p) THEN Len(RowCoords(p.st))
                                ELSE 0) :
            \A s1 \in {BeforeJumps(p.st, EntropyDue(p), d)} :
              LET active_mice ==
                      {mid \in DOMAIN s1.mice : s1.mice[mid].status = "IN_PLAY"}
              IN  /\ JumpPrefix(s1, active_mice, Len(s1.mice) + 1)
                        = _check_jumps(s1)
                  /\ \A mid \in active_mice :
                        \A s \in {JumpPrefix(s1, active_mice, mid)} :
                          \A t \in {JumpMouse(s, mid)} :
                            JumpAdmission(s, t, mid)

\* A mouse stands in row 2 after a jump North, and the cell it now points
\* at holds a gear that has no empty base facing it.
C11_Witness ==
    /\ result.kind = "returned"
    /\ result.success
    /\ \E mid \in DOMAIN mice :
          /\ mice[mid].status = "IN_PLAY"
          /\ mice[mid].pos[2] = 2
          /\ LET m == mice[mid]
                 d == (board[m.pos].rot + m.on_base) % 4
                 target == <<m.pos[1] + DIRECTION_DELTAS(d)[1],
                             m.pos[2] + DIRECTION_DELTAS(d)[2]>>
             IN  /\ target \in DOMAIN board
                 /\ IsGear(board[target])
                 /\ AdmittingBases(board[target], (d + 2) % 4) = {}

\* The points of what mouse mid did in the jump pass from s1 to s2: +10 for
\* an escape or a jump North, +5 for a jump West or East, -10 for a jump
\* South, nothing if it did not move.
JumpPoints(s1, s2, mid) ==
    LET m1 == s1.mice[mid]
        m2 == s2.mice[mid]
    IN  IF m1.status # "IN_PLAY" \/ m2 = m1 THEN 0
        ELSE IF m2.status = "ESCAPED" THEN 10
        ELSE IF m2.pos[2] = m1.pos[2] + 1 THEN 10
        ELSE IF m2.pos[2] = m1.pos[2] - 1 THEN -10
        ELSE 5

\* C12: the accumulated score changes in jump resolution only: the phase
\* logic (placement, rotation, pre-move), a failed move, entropy and entry
\* leave it as it was, and a jump pass changes it by the sum, over the mice
\* that moved, of +10 for a jump North or an escape, +5 for a jump West or
\* East and -10 for a jump South.
C12_ScoreFromJumpsOnly ==
    is_game_over \/
      \A p \in {TryPhase(move_str) : move_str \in Commands} :
        /\ p.st.score = score_accumulated
        /\ p.exc = "" =>
             \A d \in EntropyDraws(IF EntropyDue(p) THEN Len(RowCoords(p.st))
                                   ELSE 0) :
               \A s1 \in {BeforeJumps(p.st, EntropyDue(p), d)} :
                 /\ s1.score = score_accumulated
                 /\ \A s2 \in {_check_jumps(s1)} :
                       s2.score - s1.score
                         = SeqSum([mid \in 1..Len(s1.mice) |->
                                      JumpPoints(s1, s2, mid)])

\* A session whose mouse has jumped North and then sideways: 15 points.
C12_Witness ==
    /\ level_id = "mini"
    /\ score_accumulated = 15
    /\ \E mid \in DOMAIN mice : mice[mid].pos = <<2, 2>>

\* Every mouse has escaped.
AllEscaped == \A mid \in DOMAIN mice : mice[mid].status = "ESCAPED"

\* C13: when the move that brings the turn counter to the budget is also
\* the move on which the last mouse escapes, the result is VICTORY, not
\* TIMEOUT.
C13_VictoryBeforeTimeout ==
    [][(/\ Returned
        /\ ~is_game_over
        /\ moves_count' = max_moves
        /\ \A mid \in DOMAIN mice : mice'[mid].status = "ESCAPED")
          => (is_game_over' /\ game_result' = "VICTORY")]_vars

\* The last mouse escaped on the move that used up the budget.
C13_Witness ==
    /\ moves_count = max_moves
    /\ AllEscaped
    /\ result.kind = "returned"
    /\ result.success

\* C14: the turn counter never exceeds the level's budget; the session is
\* game-over as soon as the counter equals the budget, with TIMEOUT unless
\* every mouse has escaped; and it is game-over iff every mouse has escaped
\* or the budget is reached, VICTORY in the first case.
C14_BudgetAndTermination ==
    /\ moves_count <= max_moves
    /\ moves_count = max_moves =>
          /\ is_game_over
          /\ game_result = (IF AllEscaped THEN "VICTORY" ELSE "TIMEOUT")
    /\ is_game_over <=> (AllEscaped \/ moves_count >= max_moves)
    /\ game_result = "VICTORY" <=> AllEscaped
    /\ game_result = "TIMEOUT" <=> (~AllEscaped /\ moves_count >= max_moves)
    /\ game_result = "IN_PROGRESS" <=> ~is_game_over

\* The budget ran out with a mouse still on the board.
C14_Witness ==
    /\ moves_count = max_moves
    /\ game_result = "TIMEOUT"
    /\ \E mid \in DOMAIN mice : mice[mid].status = "IN_PLAY"

\* The final score as a function of what it reads.  _calculate_final_score
\* reads three attributes of the session (score_accumulated, ideal_moves,
\* moves_count) and _update_metrics stores its value when the session is
\* over (lines 767-770).  ScoreSpec applies these lines to sessions whose
\* three attributes are drawn from bounded sets, a negative score included.
MaxScore == 12
MaxIdeal == 3
MaxCount == 4

ScoreInit ==
    LET r == ResetValue("row")
    IN  /\ level_id = r.level_id
        /\ dims = r.dims
        /\ inventory = r.inventory
        /\ max_moves = MaxCount
        /\ ideal_moves \in 1..MaxIdeal
        /\ moves_count \in 0..MaxCount
        /\ score_accumulated \in (0 - MaxScore)..MaxScore
        /\ is_game_over \in BOOLEAN
        /\ game_result = "IN_PROGRESS"
        /\ completion_percent = 0
        /\ final_benchmark_score = 0
        /\ history = <<>>
        /\ entropy_triggered = FALSE
        /\ board = r.board
        /\ mice = r.mice
        /\ result = [kind |-> "reset", level_id |-> "row"]

\* Lines 767-770 of _update_metrics.
FinalScore ==
    /\ result.kind = "reset"
    /\ final_benchmark_score' =
          IF is_game_over
          THEN _calculate_final_score(score_accumulated, ideal_moves, moves_count)
          ELSE 0
    /\ result' = [kind |-> "scored"]
    /\ UNCHANGED <<level_id, dims, inventory, max_moves, ideal_moves,
                   moves_count, score_accumulated, is_game_over, game_result,
                   completion_percent, history, entropy_triggered, board, mice>>

ScoreNext == FinalScore

ScoreSpec == ScoreInit /\ [][ScoreNext]_vars

CatalogBoard(b, config) ==
    /\ DOMAIN b = (1..config.board_size[1]) \X (1..config.board_size[2])
    /\ \A c \in DOMAIN b :
          /\ ~IsGear(b[c])
          /\ b[c].kind = "obstacle"
                <=> config.game_map[(c[2] - 1) * config.board_size[1] + c[1]] = 0

\* The session is the untouched start of the catalog's level lvl.
FreshSession(lvl) ==
    /\ level_id = lvl
    /\ dims = GAME_LEVELS[lvl].board_size
    /\ inventory = GAME_LEVELS[lvl].inventory
    /\ max_moves = GAME_LEVELS[lvl].max_moves
    /\ ideal_moves = GAME_LEVELS[lvl].ideal_moves
    /\ CatalogBoard(board, GAME_LEVELS[lvl])
    /\ Len(mice) = GAME_LEVELS[lvl].board_size[1]
    /\ \A mid \in DOMAIN mice :
          /\ mice[mid].status = "WAITING"
          /\ mice[mid].pos = <<mid, 0>>
          /\ mice[mid].on_base = None
    /\ moves_count = 0
    /\ score_accumulated = 0
    /\ history = <<>>
    /\ ~is_game_over
    /\ game_result = "IN_PROGRESS"
    /\ completion_percent = 0
    /\ final_benchmark_score = 0
    /\ ~entropy_triggered

\* C16: after any sequence of moves on any level, reset(level_id) yields the
\* catalog entry's dimensions, obstacle layout, inventory and budgets, a
\* board with no gears, every mouse waiting, turn 0, score 0, empty history,
\* not game-over and entropy not fired.
C16_ResetReproducesLevel ==
    [][result'.kind = "reset" =>
        \A lvl \in {result'.level_id} \cap DOMAIN GAME_LEVELS :
            FreshSession(lvl)']_vars

\* A session reset to level mini (one obstacle); the constructor starts on
\* level "1", so this reset came later.
C16_Witness ==
    /\ result.kind = "reset"
    /\ result.level_id = "mini"
    /\ level_id = "mini"
    /\ board[<<2, 1>>].kind = "obstacle"

PlaceG4(x, y) ==
    Str(<<[form |-> "place", g_type |-> "G4", cell |-> <<x, y>>, b |-> 0,
           rot |-> "+90"]>>)

RotationPhase == ~is_game_over /\ InventorySum(inventory) = 0

\* The cell holds a gear.
HoldsGear(c) == c \in DOMAIN board /\ IsGear(board[c])

\* The command "P11+90", written without the G@ prefix.
BareRotate == Str(<<[form |-> "cell_rotate", cell |-> <<1, 1>>, rot |-> "+90"]>>)

\* The pre-move "P11:b=0", written without the G@ prefix.
BarePreMove == [form |-> "cell_premove", cell |-> <<1, 1>>, b |-> 0]

\* C19 as the spec states it: in the Rotation phase the main move P11+90,
\* naming a cell that holds a gear, is accepted (success = true).
C19_BareCellAccepted ==
    [][(RotationPhase /\ HoldsGear(<<1, 1>>) /\ Returned
            /\ process_move(BareRotate))
          => result'.success]_vars

\* C19, amended: in the Rotation phase a main move G@P<x><y>+90 or
\* G@P<x><y>-90 naming a cell that holds a gear is accepted and applied,
\* alone or after a pre-move G@P<x><y>:b=<0-3> naming a cell that holds a
\* gear; the forms P<x><y>+90 and P<x><y>:b=<0-3> without the G@ prefix are
\* refused (Invalid Format Phase 2, Invalid Pre-Move Format) and cost the
\* turn.  (Each implication is written consequent first.)
C19_RotationGrammar ==
    [][(RotationPhase /\ Returned) =>
        /\ \A s \in RotateSegments :
              HoldsGear(s.cell) =>
                /\ \/ /\ result'.success
                      /\ IsGear(board'[s.cell])
                      /\ board'[s.cell].rot = _calc_rotation(board[s.cell].rot, s.rot)
                   \/ ~process_move(Str(<<s>>))
                /\ \/ result'.success
                   \/ \A p \in PreMoveSegments :
                        (p.form = "premove" /\ p.b \in 0..3 /\ HoldsGear(p.cell))
                          => ~process_move(Str(<<p, s>>))
                /\ \/ /\ ~result'.success
                      /\ result'.msg = "Invalid Pre-Move Format"
                      /\ moves_count' = moves_count + 1
                   \/ ~process_move(Str(<<BarePreMove, s>>))
        /\ \/ /\ ~result'.success
              /\ result'.msg = "Invalid Format Phase 2"
              /\ moves_count' = moves_count + 1
           \/ ~process_move(BareRotate)]_vars

\* A rotation has just been accepted: the inventory is empty, the move
\* succeeded without the entropy event of the last placement, and more
\* moves succeeded than the level has gears.
C19_Witness ==
    /\ result.kind = "returned"
    /\ result.success
    /\ result.msg = "OK"
    /\ InventorySum(inventory) = 0
    /\ Cardinality({i \in DOMAIN history : ~history[i].error})
          > InventorySum(GAME_LEVELS[level_id].inventory)

\* C20: a Rotation-phase move succeeds only if its main target holds a gear
\* and, when a pre-move is present, the pre-move matches its grammar and
\* names a cell that holds a gear; a pre-move naming an existing empty cell
\* or an obstacle makes the whole move fail.
C20_PreMoveNeedsGear ==
    [][(RotationPhase /\ Returned /\ result'.success) =>
        \A s \in RotateSegments :
          /\ HoldsGear(s.cell) \/ ~process_move(Str(<<s>>))
          /\ \A p \in PreMoveSegments \ {[form |-> "blank"]} :
                \/ /\ HoldsGear(s.cell)
                   /\ p.form = "premove"
                   /\ HoldsGear(p.cell)
                \/ ~process_move(Str(<<p, s>>))]_vars

\* The gears on the board.
GearCells == {c \in DOMAIN board : IsGear(board[c])}

\* C21: for every gear on the board the stored occupancy of base i is
\* NotPresent (2) iff i is not a base of the gear's type; the other bases are
\* Empty (0) or Occupied (1).
C21_NotPresentIffNoBase ==
    \A c \in GearCells :
        /\ Len(board[c].bases_code) = 4
        /\ \A i \in 0..3 :
              /\ board[c].bases_code[i + 1] \in {0, 1, 2}
              /\ board[c].bases_code[i + 1] = 2
                    <=> i \notin Range(GEAR_BASES(board[c].type))

\* After the entropy event a gear with fewer than four bases carries a mouse.
C21_Witness ==
    /\ entropy_triggered
    /\ \E c \in GearCells :
          /\ \E i \in 1..4 : board[c].bases_code[i] = 2
          /\ \E i \in 1..4 : board[c].bases_code[i] = 1

\* The mice in play.
InPlay == {mid \in DOMAIN mice : mice[mid].status = "IN_PLAY"}

\* C22: a mouse has a base index iff it is InPlay; an InPlay mouse stands on
\* a cell holding a gear whose occupancy at that base is Occupied; and every
\* Occupied base on the board is the base of exactly one InPlay mouse.
C22_MouseBaseConsistency ==
    /\ \A mid \in DOMAIN mice :
          /\ mice[mid].on_base # None <=> mid \in InPlay
          /\ mid \in InPlay =>
                /\ mice[mid].pos \in GearCells
                /\ mice[mid].on_base \in 0..3
                /\ board[mice[mid].pos].bases_code[mice[mid].on_base + 1] = 1
    /\ \A c \in GearCells : \A i \in 0..3 :
          board[c].bases_code[i + 1] = 1 =>
              Cardinality({mid \in InPlay :
                              mice[mid].pos = c /\ mice[mid].on_base = i}) = 1

\* After the entropy event two mice are in play on different gears.
C22_Witness ==
    /\ entropy_triggered
    /\ \E m1, m2 \in InPlay : mice[m1].pos # mice[m2].pos

\* The gear types on the board, cell by cell (Empty for a cell with no gear).
GearTypeAt(b) == [c \in DOMAIN b |-> IF IsGear(b[c]) THEN b[c].type ELSE "Empty"]

\* C23: no inventory count increases under process_move; once the inventory
\* sum is 0 it stays 0 under process_move, and from then on no placement
\* command is applied: each fails and no gear is added, removed or replaced.
C23_PlacementIsOneWay ==
    [][Returned =>
        /\ \A g \in DOMAIN inventory : inventory'[g] <= inventory[g]
        /\ DOMAIN inventory' = DOMAIN inventory
        /\ InventorySum(inventory) = 0 =>
              /\ InventorySum(inventory') = 0
              /\ GearTypeAt(board') = GearTypeAt(board)
              /\ \/ ~result'.success
                 \/ \A s \in PlaceSegments : ~process_move(Str(<<s>>))]_vars

\* In the Rotation phase a move has just been refused for its format.
C23_Witness ==
    /\ InventorySum(inventory) = 0
    /\ entropy_triggered
    /\ result.kind = "returned"
    /\ ~result.success
    /\ result.msg = "Invalid Format Phase 2"

\* C24 as the spec states it: a process_move call on a terminated session
\* fails with success = false and a message, and charges a turn.
C24_GameOverChargesTurn ==
    [][(is_game_over /\ Returned) =>
          /\ ~result'.success
          /\ result'.msg # ""
          /\ moves_count' = moves_count + 1]_vars

\* C24, amended: a process_move call on a terminated session fails with
\* success = false and the message "Game ended.", and charges no turn: the
\* turn counter and the history are as before the call, and the final
\* score computed from the counter does not change.
C24_GameOverChargesNoTurn ==
    [][(is_game_over /\ Returned) =>
          /\ ~result'.success
          /\ result'.msg = "Game ended."
          /\ moves_count' = moves_count
          /\ history' = history
          /\ Len(history') = moves_count'
          /\ final_benchmark_score' = final_benchmark_score]_vars

\* A session that timed out has refused a further call.
C24_Witness ==
    /\ game_result = "TIMEOUT"
    /\ moves_count = max_moves
    /\ result.kind = "returned"
    /\ result.msg = "Game ended."

\* What a session holds after process_move(move_str), one outcome for each
\* draw the entropy event can make.  The seed given to CapsiCapsEnv.reset
\* reaches the environment's own generator only; _trigger_entropy draws
\* from the module random, which no reset seeds, so the draws do not depend
\* on the seed.
Outcomes(p) ==
    IF p.exc # "" THEN {p.st}
    ELSE {AfterPhase(p.st, EntropyDue(p), d) :
            d \in EntropyDraws(IF EntropyDue(p) THEN Len(RowCoords(p.st)) ELSE 0)}

\* C25: sessions are replayable: from the same session the same command
\* gives the same snapshot, the move on which the entropy event fires
\* included; so two sessions reset alike and given the same commands agree
\* after every move.
C25_Replayable ==
    is_game_over \/
      \A p \in {TryPhase(move_str) : move_str \in Commands} :
          Cardinality(Outcomes(p)) = 1

(***************************************************************************)
(* The server.  green_agent.py keeps one environment in the global        *)
(* env_instance and serves /submit_move and /start_game from app.run,     *)
(* whose requests run in threads of their own; no lock is taken around    *)
(* env_instance.step or env_instance.reset.  RaceSpec follows two server  *)
(* threads through process_move statement by statement (a coarser grain   *)
(* than the interpreter's, so each of its interleavings is one the        *)
(* threads can take); reset is taken in one step.  result holds each      *)
(* thread's position (pc), its command (move), the phase it read          *)
(* (placement) and whether its move failed (failed).                      *)
(***************************************************************************)
Threads == {1, 2}

\* The move budget of the level the two threads play (level row, shortened).
RaceMaxMoves == 2

\* The values reset assigns for that level.
RaceLevel == [ResetValue("row") EXCEPT !.max_moves = RaceMaxMoves]

\* The commands thread t sends: a placement on its own cell of row 1, or a
\* text that matches no grammar.
RaceCommands(t) ==
    {[form |-> "place", g_type |-> g, cell |-> <<t, 1>>, b |-> 0, rot |-> "+90"] :
        g \in {"G2", "G4"}}
    \cup {[form |-> "junk"]}

\* The session as the record the physics works on.
Current ==
    [board |-> board, inventory |-> inventory, mice |-> mice,
     score |-> score_accumulated, exc |-> ""]

At(t, label) == result.kind = "serving" /\ result.pc[t] = label

Goto(t, label) == result' = [result EXCEPT !.pc[t] = label]

RaceInit ==
    LET r == RaceLevel
    IN  /\ level_id = r.level_id
        /\ dims = r.dims
        /\ inventory = r.inventory
        /\ max_moves = r.max_moves
        /\ ideal_moves = r.ideal_moves
        /\ moves_count = 0
        /\ score_accumulated = 0
        /\ is_game_over = FALSE
        /\ game_result = "IN_PROGRESS"
        /\ completion_percent = 0
        /\ final_benchmark_score = 0
        /\ history = <<>>
        /\ entropy_triggered = FALSE
        /\ board = r.board
        /\ mice = r.mice
        /\ result = [kind |-> "serving",
                     pc |-> [t \in Threads |-> "idle"],
                     move |-> [t \in Threads |-> [form |-> "junk"]],
                     placement |-> [t \in Threads |-> FALSE],
                     failed |-> [t \in Threads |-> FALSE]]

\* /submit_move: the thread enters process_move with a command.
SubmitMove(t) ==
    /\ At(t, "idle")
    /\ \E seg \in RaceCommands(t) :
          result' = [result EXCEPT !.pc[t] = "check", !.move[t] = seg,
                                   !.placement[t] = FALSE, !.failed[t] = FALSE]
    /\ UNCHANGED session

\* Lines 447-456: the game-over return, else the phase is read.
GlobalStateCheck(t) ==
    /\ At(t, "check")
    /\ IF is_game_over THEN Goto(t, "idle")
       ELSE result' = [result EXCEPT !.pc[t] = "validate",
                                     !.placement[t] = InventorySum(inventory) > 0]
    /\ UNCHANGED session

\* Lines 469-501 (placement) or 520 (rotation): the checks that raise.
Validate(t) ==
    /\ At(t, "validate")
    /\ \E p \in {PhaseLogic(Current, result.placement[t],
                            Str(<<result.move[t]>>))} :
          IF p.exc # ""
          THEN result' = [result EXCEPT !.pc[t] = "log", !.failed[t] = TRUE]
          ELSE Goto(t, "execute")
    /\ UNCHANGED session

\* Lines 503-560: the gear is built, the inventory count taken, then the
\* physics, the entropy block, entries and jumps.
Execute(t) ==
    /\ At(t, "execute")
    /\ \E s1 \in {PlacementExecute(Current, result.move[t])} :
        \E due \in {/\ result.placement[t]
                    /\ InventorySum(s1.inventory) = 0
                    /\ ~entropy_triggered} :
          \E d \in EntropyDraws(IF due THEN Len(RowCoords(s1)) ELSE 0) :
            \E s2 \in {AfterPhase(s1, due, d)} :
              /\ Store(s2, entropy_triggered \/ due)
              /\ result' = [result EXCEPT !.pc[t] = "log",
                                          !.failed[t] = s2.exc # ""]
    /\ UNCHANGED <<moves_count, is_game_over, game_result,
                   completion_percent, final_benchmark_score, history>>

\* Lines 563-564 and 580-581: the move is logged under the next turn number.
LogMove(t) ==
    /\ At(t, "log")
    /\ history' = Append(history, [turn |-> moves_count + 1,
                                   error |-> result.failed[t]])
    /\ Goto(t, "count")
    /\ UNCHANGED <<level_id, dims, inventory, max_moves, ideal_moves,
                   moves_count, score_accumulated, is_game_over, game_result,
                   completion_percent, final_benchmark_score,
                   entropy_triggered, board, mice>>

\* Lines 567 and 584: the turn is charged.
CountMove(t) ==
    /\ At(t, "count")
    /\ moves_count' = moves_count + 1
    /\ Goto(t, "metrics")
    /\ UNCHANGED <<level_id, dims, inventory, max_moves, ideal_moves,
                   score_accumulated, is_game_over, game_result,
                   completion_percent, final_benchmark_score, history,
                   entropy_triggered, board, mice>>

\* Lines 568 and 585: _update_metrics, and the call returns.
UpdateMetrics(t) ==
    /\ At(t, "metrics")
    /\ \E metrics \in {_update_metrics(mice, moves_count, score_accumulated,
                                       is_game_over, game_result)} :
          /\ completion_percent' = metrics.completion_percent
          /\ is_game_over' = metrics.is_game_over
          /\ game_result' = metrics.game_result
          /\ final_benchmark_score' = metrics.final_benchmark_score
    /\ Goto(t, "idle")
    /\ UNCHANGED <<level_id, dims, inventory, max_moves, ideal_moves,
                   moves_count, score_accumulated, history,
                   entropy_triggered, board, mice>>

\* /start_game: the thread resets the session, wherever the other thread is.
StartGame(t) ==
    /\ At(t, "idle")
    /\ \E r \in {RaceLevel} :
          /\ level_id' = r.level_id
          /\ dims' = r.dims
          /\ inventory' = r.inventory
          /\ max_moves' = r.max_moves
          /\ ideal_moves' = r.ideal_moves
          /\ board' = r.board
          /\ mice' = r.mice
    /\ moves_count' = 0
    /\ score_accumulated' = 0
    /\ is_game_over' = FALSE
    /\ game_result' = "IN_PROGRESS"
    /\ completion_percent' = 0
    /\ final_benchmark_score' = 0
    /\ history' = <<>>
    /\ entropy_triggered' = FALSE
    /\ UNCHANGED result

RaceNext ==
    \E t \in Threads :
        \/ SubmitMove(t)
        \/ GlobalStateCheck(t)
        \/ Validate(t)
        \/ Execute(t)
        \/ LogMove(t)
        \/ CountMove(t)
        \/ UpdateMetrics(t)
        \/ StartGame(t)

RaceSpec == RaceInit /\ [][RaceNext]_vars

\* C26: whatever the server's threads do, the turn counter never exceeds
\* the budget, no inventory count is negative, and once no call is in
\* progress every turn has exactly one history entry.
C26_SerializedAccess ==
    /\ moves_count <= max_moves
    /\ \A g \in DOMAIN inventory : inventory[g] >= 0
    /\ (\A t \in Threads : At(t, "idle")) =>
          /\ Len(history) = moves_count
          /\ \A i \in DOMAIN history : history[i].turn = i

\* The entry rule for one pass, from s to t: each Waiting mouse of column x
\* enters iff cell (x, 1) holds a gear with a base of its type that is Empty
\* and points South; it then sits on such a base in (x, 1), now Occupied;
\* every other mouse, and every other cell, is as before.
EntryRule(s, t) ==
    /\ \A mid \in DOMAIN s.mice :
          LET m == s.mice[mid]
              home == <<m.pos[1], 1>>
              admitted == /\ home \in DOMAIN s.board
                          /\ IsGear(s.board[home])
                          /\ AdmittingBases(s.board[home], 2) # {}
          IN  IF m.status = "WAITING" /\ admitted
              THEN /\ m.pos = <<mid, 0>>
                   /\ t.mice[mid].status = "IN_PLAY"
                   /\ t.mice[mid].pos = home
                   /\ t.mice[mid].on_base \in AdmittingBases(s.board[home], 2)
                   /\ \A b \in AdmittingBases(s.board[home], 2) :
                         t.mice[mid].on_base <= b
                   /\ t.board[home] =
                         [s.board[home] EXCEPT
                            !.bases_code[t.mice[mid].on_base + 1] = 1]
              ELSE t.mice[mid] = m
    /\ \A c \in DOMAIN s.board :
          (\A mid \in DOMAIN s.mice :
              ~(s.mice[mid].status = "WAITING" /\ c = <<s.mice[mid].pos[1], 1>>))
            => t.board[c] = s.board[c]
    /\ t.score = s.score
    /\ t.inventory = s.inventory

\* The session as lines 503-510 leave it, the new gear on the board, before
\* the entry pass of the placement.
Placed(p, seg) ==
    [Current EXCEPT
        !.board[seg.cell] =
            _build_gear_str(seg.g_type, seg.cell, board[seg.cell].topo, seg.b,
                [i \in 1..4 |->
                    IF (i - 1) \in Range(GEAR_BASES(seg.g_type)) THEN 0 ELSE 2]),
        !.inventory[seg.g_type] = @ - 1]

\* C27: in every entry pass of every move (the pass of a placement, between
\* the new gear and its rotation, and the pass after the entropy block) a
\* Waiting mouse enters iff the gear of its home column in row 1 has an
\* Empty base of its type pointing South, and then sits on that base; a
\* mouse never enters through another column or row.
C27_EntryAdmission ==
    is_game_over \/
      /\ \A seg \in PlaceSegments :
            \A p \in {TryPhase(Str(<<seg>>))} :
              p.exc = "" =>
                \A s \in {Placed(p, seg)} :
                  /\ EntryRule(s, _check_entries(s))
                  /\ p.st = _apply_rotation(_check_entries(s), seg.cell, seg.rot)
      /\ \A p \in {TryPhase(move_str) : move_str \in Commands} :
            p.exc = "" =>
              \A d \in EntropyDraws(IF EntropyDue(p) THEN Len(RowCoords(p.st))
                                    ELSE 0) :
                \A s \in {IF EntropyDue(p) THEN _trigger_entropy(p.st, d)
                          ELSE p.st} :
                  EntryRule(s, _check_entries(s))

\* A mouse has just entered on the gear of its column while another still
\* waits before a gear that does not admit it.
C27_Witness ==
    /\ result.kind = "returned"
    /\ result.success
    /\ \E m1, m2 \in DOMAIN mice :
          /\ mice[m1].status = "IN_PLAY"
          /\ mice[m1].pos = <<m1, 1>>
          /\ mice[m2].status = "WAITING"
          /\ IsGear(board[<<m2, 1>>])

\* C28: a mouse that enters the board during a move takes no part in that
\* move's jump resolution: at the end of the move it is InPlay on the row-1
\* gear of its column, and the move has earned no points through it.
C28_EnteredMouseStays ==
    [][(Returned /\ result'.success) =>
        \A mid \in DOMAIN mice :
          (mice[mid].status = "WAITING" /\ mice'[mid].status # "WAITING") =>
              /\ mice'[mid].status = "IN_PLAY"
              /\ mice'[mid].pos = <<mid, 1>>
              /\ (\A other \in DOMAIN mice \ {mid} : mice'[other] = mice[other])
                    => score_accumulated' = score_accumulated]_vars

\* The cell b is the cell a, a cell orthogonally next to it, or off-board.
OneJumpApart(a, b) ==
    \/ b = a
    \/ b = OUT
    \/ /\ a[1] = b[1] /\ (a[2] - b[2]) \in {-1, 1}
    \/ /\ a[2] = b[2] /\ (a[1] - b[1]) \in {-1, 1}

\* C29: in one move every mouse changes cell by jumping at most once: on a
\* successful move without the entropy event, a mouse's position after the
\* move is its position before, an orthogonally adjacent cell, or off-board.
C29_OneJumpPerMove ==
    [][(Returned /\ result'.success /\ result'.msg = "OK") =>
        \A mid \in DOMAIN mice :
            OneJumpApart(mice[mid].pos, mice'[mid].pos)]_vars


\* The state in which the entry pass of line 557 leaves a move whose phase
\* logic ended in st: the entropy block with the draw d when it is due,
\* then _check_entries.
EntriesAfter(p, st, d) ==
    _check_entries(IF EntropyDue(p) THEN _trigger_entropy(st, d) ELSE st)

\* C30: in every successful placement the cascade has turned all gears
\* before any entry or jump resolution runs, so no mouse enters on the b the
\* command gave the new gear: the move resolves its entries and jumps from
\* the state in which the new gear and every other gear have turned and no
\* mouse has entered yet.
C30_CascadeBeforeEntries ==
    is_game_over \/
      \A seg \in PlaceSegments :
        \A p \in {TryPhase(Str(<<seg>>))} :
          p.exc = "" =>
            \A cascaded \in {_apply_rotation(Placed(p, seg), seg.cell, seg.rot)} :
              \A d \in EntropyDraws(IF EntropyDue(p) THEN Len(RowCoords(p.st))
                                    ELSE 0) :
                EntriesAfter(p, p.st, d) = EntriesAfter(p, cascaded, d)


\* C31: the game is won from the Rotation phase only: in every state whose
\* result is VICTORY the inventory sum is 0.
C31_VictoryOnlyInRotation ==
    game_result = "VICTORY" => InventorySum(inventory) = 0


\* The cells of the board b that hold a gear.
GearsOf(b) == {c \in DOMAIN b : IsGear(b[c])}

\* How many gears of row y of the board b have the type and the occupancy
\* code of the gear g.
CountLike(b, y, g) ==
    Cardinality({c \in GearsOf(b) :
                    /\ c[2] = y
                    /\ b[c].type = g.type
                    /\ b[c].bases_code = g.bases_code})

\* The entropy event took s to t: the cells holding gears are the same, row
\* EntropyRow holds the same gears counted by type and occupancy code, each
\* with a rotation in 0..3, and nothing else has changed.
EntropyFrame(s, t) ==
    /\ DOMAIN t.board = DOMAIN s.board
    /\ GearsOf(t.board) = GearsOf(s.board)
    /\ \A c \in DOMAIN s.board : c[2] # EntropyRow => t.board[c] = s.board[c]
    /\ \A c \in GearsOf(s.board) :
          c[2] = EntropyRow =>
            /\ CountLike(t.board, EntropyRow, s.board[c])
                  = CountLike(s.board, EntropyRow, s.board[c])
            /\ CountLike(t.board, EntropyRow, t.board[c])
                  = CountLike(s.board, EntropyRow, t.board[c])
            /\ t.board[c].rot \in 0..3
            /\ t.board[c].pos = c
    /\ t.inventory = s.inventory
    /\ t.score = s.score

\* C32: the entropy event only permutes the gears of row EntropyRow among the
\* cells of that row that held gears: for every command on which the event
\* fires and every draw of the shuffle and the rotations, the gear-holding
\* cells, the row's gears counted by type and occupancy code, every cell
\* outside the row, the inventory and the score are as before, and every
\* gear of the row has a rotation in 0..3.
C32_EntropyPermutesRow ==
    is_game_over \/
      \A p \in {TryPhase(move_str) : move_str \in Commands} :
        (p.exc = "" /\ EntropyDue(p)) =>
          \A d \in EntropyDraws(Len(RowCoords(p.st))) :
            EntropyFrame(p.st, _trigger_entropy(p.st, d))

\* The entropy event has just fired on a row of two gears.
C32_Witness ==
    /\ result.kind = "returned"
    /\ result.success
    /\ result.msg = "OK | TOTAL ENTROPY"
    /\ Cardinality({c \in GearsOf(board) : c[2] = EntropyRow}) = 2


\* The entropy event with the draws d took s to t.  A mouse InPlay on a gear
\* of row_coords is on the cell that gear was rebuilt on, with the base index
\* it had, and that gear has the type and the occupancy code of the gear the
\* mouse sat on; every other mouse is as it was.
PayloadRule(s, t, d) ==
    LET row_coords == RowCoords(s)
        n == Len(row_coords)
    IN  \A mid \in DOMAIN s.mice :
          LET m == s.mice[mid]
          IN  IF m.status = "IN_PLAY" /\ m.pos \in Range(row_coords)
              THEN \E i \in 1..n :
                     /\ row_coords[d.shuffle[i]] = m.pos
                     /\ t.mice[mid] = [m EXCEPT !.pos = row_coords[i]]
                     /\ t.board[row_coords[i]].type = s.board[m.pos].type
                     /\ t.board[row_coords[i]].bases_code = s.board[m.pos].bases_code
                     /\ t.board[row_coords[i]].bases_code[m.on_base + 1] = 1
              ELSE t.mice[mid] = m

\* C33: when the entropy event rebuilds a gear on a new cell, every InPlay
\* mouse that sat on the gear stands on the new cell, moved once and with its
\* base index unchanged, and no other mouse is moved; so each mouse is still
\* on the gear it sat on and no two mice have changed gears.
C33_PayloadFollowsGear ==
    is_game_over \/
      \A p \in {TryPhase(move_str) : move_str \in Commands} :
        (p.exc = "" /\ EntropyDue(p)) =>
          \A d \in EntropyDraws(Len(RowCoords(p.st))) :
            PayloadRule(p.st, _trigger_entropy(p.st, d), d)

\* The entropy event has fired and a mouse that has never jumped stands in
\* play on a column other than the one it entered by.
C33_Witness ==
    /\ result.kind = "returned"
    /\ result.success
    /\ result.msg = "OK | TOTAL ENTROPY"
    /\ score_accumulated = 0
    /\ \E mid \in DOMAIN mice :
          /\ mice[mid].status = "IN_PLAY"
          /\ mice[mid].pos[1] # mid


\* C34: in every reachable state the gear in cell (x, y) has topology R iff
\* x + y is even and L otherwise, the parity of the cell it stands on now:
\* after a placement, a cascade, and an entropy relocation to a cell of the
\* other parity.
C34_TopologyIsCellParity ==
    \A c \in GearsOf(board) :
        /\ board[c].pos = c
        /\ board[c].topo = Topology(c[1], c[2])

\* The entropy event has carried a mouse that has never jumped, on its gear,
\* to a cell of the other parity.
C34_Witness ==
    /\ result.kind = "returned"
    /\ result.msg = "OK | TOTAL ENTROPY"
    /\ score_accumulated = 0
    /\ \E mid \in DOMAIN mice :
          /\ mice[mid].status = "IN_PLAY"
          /\ Topology(mice[mid].pos[1], mice[mid].pos[2]) # Topology(mid, 1)
          /\ IsGear(board[mice[mid].pos])


\* The direction the cascade driven from the cell driver with rot_str turns
\* the gear of cell c (lines 651-653).
CascadeDir(c, driver, rot_str) ==
    IF board[c].topo # board[driver].topo
    THEN (IF rot_str = "+90" THEN "-90" ELSE "+90")
    ELSE rot_str

\* The board after the pre-move pre and the cascade of the main move main,
\* with no entry and no jump resolved between or after them.
ForcedThenCascaded(pre, main) ==
    [c \in DOMAIN board |->
        IF IsGear(board[c])
        THEN [board[c] EXCEPT !.rot =
                _calc_rotation(IF c = pre.cell THEN pre.b ELSE board[c].rot,
                               CascadeDir(c, main.cell, main.rot))]
        ELSE board[c]]

\* A compound move "pre;main" whose two cells hold gears sets the gear of
\* pre to the given b, resolves no entry and no jump at that point, and then
\* turns every gear by the cascade, the gear of pre from b; the entries and
\* jumps that follow leave the rotations alone and nothing is raised.
CompoundRule(pre, main) ==
    \A ph \in {TryPhase(Str(<<pre, main>>))} :
        /\ ph.exc = ""
        /\ ph.st.board = ForcedThenCascaded(pre, main)
        /\ ph.st.mice = mice
        /\ ph.st.score = score_accumulated
        /\ ~EntropyDue(ph)
        /\ \A o \in Outcomes(ph) :
              /\ o.exc = ""
              /\ \A c \in GearCells :
                    o.board[c].rot = ForcedThenCascaded(pre, main)[c].rot

\* C35: in the Rotation phase a compound move "pre_move;main_move" whose two
\* cells hold gears first sets the pre-move gear to the given b, with no
\* entry or jump resolution in between, and then applies the cascade to all
\* gears, so that the pre-move gear ends at b turned by its cascade delta;
\* and a call in the Rotation phase, compound or not, takes exactly one turn.
C35_PreMoveThenCascade ==
    /\ [](RotationPhase =>
            \A main \in RotateSegments :
              \A pre \in {x \in PreMoveSegments : x.form = "premove"} :
                (HoldsGear(main.cell) /\ HoldsGear(pre.cell) /\ pre.b \in 0..3)
                    => CompoundRule(pre, main))
    /\ [][(RotationPhase /\ Returned) =>
            /\ moves_count' = moves_count + 1
            /\ Len(history') = Len(history) + 1]_vars

\* A move has just succeeded in the Rotation phase, the game goes on, and a
\* compound move is at hand whose pre-move changes the b of its gear and
\* whose cascade is followed by a mouse changing place.
C35_Witness ==
    /\ InventorySum(inventory) = 0
    /\ entropy_triggered
    /\ ~is_game_over
    /\ result.kind = "returned"
    /\ result.success
    /\ result.msg = "OK"
    /\ moves_count >= 3
    /\ \E main \in RotateSegments :
          \E pre \in {x \in PreMoveSegments : x.form = "premove"} :
            /\ HoldsGear(main.cell) /\ HoldsGear(pre.cell) /\ pre.b \in 0..3
            /\ pre.b # board[pre.cell].rot
            /\ \E o \in Outcomes(TryPhase(Str(<<pre, main>>))) : o.mice # mice


\* The number of gears of type t on the board b.
OnBoard(b, t) == Cardinality({c \in GearsOf(b) : b[c].type = t})

\* C36: gear conservation.  In every reachable state, for every gear type t,
\* inventory[t] >= 0 and inventory[t] plus the gears of type t on the board
\* is the level's starting inventory of t.  A call either leaves every
\* inventory count and the gear-holding cells as they were, or it is a
\* successful placement: one type's count goes down by 1, the board holds
\* one more gear of that type on one more cell, and every other count and
\* gear-holding cell stays.
C36_GearConservation ==
    /\ [](\A t \in GearTypes :
            /\ inventory[t] >= 0
            /\ inventory[t] + OnBoard(board, t)
                  = GAME_LEVELS[level_id].inventory[t])
    /\ [][Returned =>
            \/ /\ inventory' = inventory
               /\ GearsOf(board') = GearsOf(board)
               /\ \A t \in GearTypes : OnBoard(board', t) = OnBoard(board, t)
            \/ /\ result'.success
               /\ InventorySum(inventory) > 0
               /\ \E t \in GearTypes :
                     /\ inventory' = [inventory EXCEPT ![t] = @ - 1]
                     /\ OnBoard(board', t) = OnBoard(board, t) + 1
                     /\ \E c \in DOMAIN board \ GearsOf(board) :
                           GearsOf(board') = GearsOf(board) \cup {c}
                     /\ \A u \in GearTypes \ {t} :
                           OnBoard(board', u) = OnBoard(board, u)]_vars

\* The last gear has been placed, the entropy event has moved the row, and a
\* later move has been refused: every gear of the level is on the board.
C36_Witness ==
    /\ InventorySum(inventory) = 0
    /\ entropy_triggered
    /\ result.kind = "returned"
    /\ ~result.success
    /\ \E t \in GearTypes : OnBoard(board, t) > 0
    /\ \A t \in GearTypes : OnBoard(board, t) = GAME_LEVELS[level_id].inventory[t]


\* No two mice in play of the registry m stand on the same base of the same
\* cell.
Exclusive(m) ==
    \A m1, m2 \in DOMAIN m :
        (m1 # m2 /\ m[m1].status = "IN_PLAY" /\ m[m2].status = "IN_PLAY")
            => <<m[m1].pos, m[m1].on_base>> # <<m[m2].pos, m[m2].on_base>>

\* C37: base exclusivity.  In every reachable state no two distinct InPlay
\* mice have the same cell and base index; and the same holds inside every
\* move, after the phase logic (with the entry pass of a placement), after
\* the entropy event and the entry pass that follows, and after the jumps.
C37_BaseExclusivity ==
    /\ Exclusive(mice)
    /\ is_game_over \/
         \A p \in {TryPhase(move_str) : move_str \in Commands} :
           p.exc = "" =>
             /\ Exclusive(p.st.mice)
             /\ \A d \in EntropyDraws(IF EntropyDue(p) THEN Len(RowCoords(p.st))
                                      ELSE 0) :
                  /\ Exclusive(BeforeJumps(p.st, EntropyDue(p), d).mice)
                  /\ Exclusive(AfterPhase(p.st, EntropyDue(p), d).mice)

\* Two mice stand in play on the same gear, one of them brought there by a
\* jump.
C37_Witness ==
    \E m1, m2 \in DOMAIN mice :
        /\ m1 # m2
        /\ mice[m1].status = "IN_PLAY"
        /\ mice[m2].status = "IN_PLAY"
        /\ mice[m1].pos = mice[m2].pos
        /\ score_accumulated > 0


\* The order of the statuses.
StatusRank(status) ==
    IF status = "WAITING" THEN 0 ELSE IF status = "IN_PLAY" THEN 1 ELSE 2

\* C38: mouse status only moves forward.  Under every process_move call each
\* mouse keeps its status or goes on from Waiting towards InPlay and Escaped,
\* never back; an Escaped mouse is left as it is; so the rescued count and
\* the completion percentage do not decrease.
C38_StatusMovesForward ==
    [][Returned =>
        /\ DOMAIN mice' = DOMAIN mice
        /\ \A mid \in DOMAIN mice :
              /\ mice'[mid].status \in {"WAITING", "IN_PLAY", "ESCAPED"}
              /\ StatusRank(mice'[mid].status) >= StatusRank(mice[mid].status)
              /\ mice[mid].status = "ESCAPED" => mice'[mid] = mice[mid]
        /\ _count_rescued_mice(mice') >= _count_rescued_mice(mice)
        /\ completion_percent' >= completion_percent]_vars

\* One mouse has escaped and another, in play on row 1, points South after
\* a move.
C38_Witness ==
    /\ result.kind = "returned"
    /\ completion_percent > 0
    /\ \E mid \in DOMAIN mice :
          /\ mice[mid].status = "IN_PLAY"
          /\ mice[mid].pos[2] = 1
          /\ _calc_vector_sum(board[mice[mid].pos].rot, mice[mid].on_base) = 2


\* _generate_board_encoding (lines 261-301): the board as get_state reports
\* it.  A gear is rebuilt from its type, the key of its cell, its topology
\* and rotation, and an occupancy code computed from the mouse registry; any
\* other cell is sent as stored.
_generate_board_encoding ==
    [cell_id \in DOMAIN board |->
        LET data == board[cell_id]
        IN  IF IsGear(data)
            THEN
              LET valid_bases == Range(GEAR_BASES(data.type))
                  mice_here == {mice[mid].on_base :
                                  mid \in {k \in DOMAIN mice : mice[k].pos = cell_id}}
                  b_code_list == [i \in 1..4 |->
                                    IF (i - 1) \notin valid_bases THEN 2
                                    ELSE IF (i - 1) \in mice_here THEN 1
                                    ELSE 0]
              IN  _build_gear_str(data.type, cell_id, data.topo, data.rot,
                                  b_code_list)
            ELSE data]

\* C39: the board encoding of the snapshot agrees with the stored board: for
\* every gear cell the occupancy code recomputed from the mouse registry is
\* the stored one, and type, cell id, topology and rotation are the stored
\* ones; every other cell is reported as stored.
C39_EncodingAgreesWithBoard ==
    /\ DOMAIN _generate_board_encoding = DOMAIN board
    /\ \A c \in DOMAIN board : _generate_board_encoding[c] = board[c]

\* After a jump one gear carries a mouse and another gear carries none.
C39_Witness ==
    /\ result.kind = "returned"
    /\ score_accumulated > 0
    /\ \E c1, c2 \in GearsOf(board) :
          /\ \E i \in 1..4 : board[c1].bases_code[i] = 1
          /\ \A i \in 1..4 : board[c2].bases_code[i] # 1
          /\ \E mid \in DOMAIN mice :
                mice[mid].status = "IN_PLAY" /\ mice[mid].pos = c1


\* Cells a and b are orthogonal neighbours.
Adjacent(a, b) ==
    \/ a[1] = b[1] /\ (a[2] - b[2]) \in {-1, 1}
    \/ a[2] = b[2] /\ (a[1] - b[1]) \in {-1, 1}

\* The cells of S that can be reached from the cells of seen by steps between
\* orthogonal neighbours inside S.
RECURSIVE Grow(_, _)
Grow(seen, S) ==
    LET more == {c \in S \ seen : \E d \in seen : Adjacent(c, d)}
    IN  IF more = {} THEN seen ELSE Grow(seen \cup more, S)

\* C40: board connectivity.  In every reachable state the cells holding gears
\* are none, or they include a row-1 cell and every one of them is reached
\* from any other through orthogonally adjacent gear-holding cells.
C40_GearsConnected ==
    \A S \in {GearsOf(board)} :
        S = {} \/
          /\ \E c \in S : c[2] = 1
          /\ \A c \in S : Grow({c}, S) = S

\* Gears stand on three cells, one of them above row 1, and the entropy event
\* has fired.
C40_Witness ==
    /\ entropy_triggered
    /\ Cardinality(GearsOf(board)) >= 3
    /\ \E c \in GearsOf(board) : c[2] > 1


------------------------------------------------------------------------------
(* 9. A session on level "4".  The caller places gears one by one in the   *)
(* order of Level4Script; it may also send a text that is no command, or a *)
(* rotation during the Placement phase, and after the refusal goes on with *)
(* the placement that is due.                                              *)

\* The placements of the session, in order.
Level4Script ==
    <<[form |-> "place", g_type |-> "G3", cell |-> <<4, 1>>, b |-> 1, rot |-> "-90"],
      [form |-> "place", g_type |-> "G3", cell |-> <<4, 2>>, b |-> 2, rot |-> "+90"],
      [form |-> "place", g_type |-> "G4", cell |-> <<3, 1>>, b |-> 0, rot |-> "+90"],
      [form |-> "place", g_type |-> "G4", cell |-> <<4, 3>>, b |-> 3, rot |-> "-90"],
      [form |-> "place", g_type |-> "G4", cell |-> <<5, 1>>, b |-> 1, rot |-> "-90"],
      [form |-> "place", g_type |-> "G4", cell |-> <<4, 4>>, b |-> 2, rot |-> "-90"],
      [form |-> "place", g_type |-> "G3", cell |-> <<6, 1>>, b |-> 3, rot |-> "+90"],
      [form |-> "place", g_type |-> "G4", cell |-> <<4, 5>>, b |-> 0, rot |-> "+90"],
      [form |-> "place", g_type |-> "G3", cell |-> <<2, 1>>, b |-> 1, rot |-> "+90"],
      [form |-> "place", g_type |-> "G3", cell |-> <<3, 2>>, b |-> 3, rot |-> "+90"],
      [form |-> "place", g_type |-> "G4", cell |-> <<1, 1>>, b |-> 2, rot |-> "-90"],
      [form |-> "place", g_type |-> "G4", cell |-> <<1, 2>>, b |-> 2, rot |-> "+90"],
      [form |-> "place", g_type |-> "G2", cell |-> <<2, 2>>, b |-> 0, rot |-> "-90"],
      [form |-> "place", g_type |-> "G2", cell |-> <<2, 3>>, b |-> 1, rot |-> "+90"],
      [form |-> "place", g_type |-> "G3", cell |-> <<5, 3>>, b |-> 3, rot |-> "+90"],
      [form |-> "place", g_type |-> "G3", cell |-> <<2, 4>>, b |-> 0, rot |-> "+90"],
      [form |-> "place", g_type |-> "G2", cell |-> <<4, 6>>, b |-> 0, rot |-> "+90"],
      [form |-> "place", g_type |-> "G2", cell |-> <<5, 4>>, b |-> 3, rot |-> "-90"],
      [form |-> "place", g_type |-> "G3", cell |-> <<1, 4>>, b |-> 2, rot |-> "-90"],
      [form |-> "place", g_type |-> "G2", cell |-> <<1, 5>>, b |-> 1, rot |-> "+90"],
      [form |-> "place", g_type |-> "G1", cell |-> <<3, 5>>, b |-> 3, rot |-> "+90"],
      [form |-> "place", g_type |-> "G3", cell |-> <<3, 3>>, b |-> 1, rot |-> "+90"],
      [form |-> "place", g_type |-> "G3", cell |-> <<5, 6>>, b |-> 3, rot |-> "-90"],
      [form |-> "place", g_type |-> "G1", cell |-> <<1, 6>>, b |-> 3, rot |-> "-90"],
      [form |-> "place", g_type |-> "G3", cell |-> <<6, 2>>, b |-> 0, rot |-> "+90"],
      [form |-> "place", g_type |-> "G1", cell |-> <<6, 6>>, b |-> 1, rot |-> "+90"],
      [form |-> "place", g_type |-> "G1", cell |-> <<2, 6>>, b |-> 2, rot |-> "-90"],
      [form |-> "place", g_type |-> "G1", cell |-> <<6, 3>>, b |-> 0, rot |-> "+90"]>>

\* How many refused calls the session may make.
MaxStrays == 1

\* Calls the engine refuses during the Placement phase.
StrayCommands ==
    {Str(<<[form |-> "junk"]>>),
     Str(<<[form |-> "rotate", cell |-> <<1, 1>>, rot |-> "+90"]>>),
     [kind |-> "none"]}

\* The calls of the session that succeeded, and those that were refused.
Played == Cardinality({i \in 1..Len(history) : ~history[i].error})

Strays == Cardinality({i \in 1..Len(history) : history[i].error})

Level4Init == Start("4")

\* The caller sends the placement that is due.
ScriptedMove ==
    /\ Played < Len(Level4Script)
    /\ process_move(Str(<<Level4Script[Played + 1]>>))

\* The caller sends something the engine refuses.
StrayMove ==
    /\ Strays < MaxStrays
    /\ \E move_str \in StrayCommands : process_move(move_str)

\* start_game on level "4".
Level4Restart == reset("4")

Level4Next == ScriptedMove \/ StrayMove \/ Level4Restart

Level4Spec == Level4Init /\ [][Level4Next]_vars

==============================================================================
